---- MODULE Spec2Model ----
(***************************************************************************)
(* State-machine model of the real-time collaboration gateway              *)
(* (alexxvedo/TFG-RealTime): workspace presence with reconnect grace, the  *)
(* shared-state (Redis) client with its local cache, circuit breaker and   *)
(* reconnect loop, and the chat handler (history and typing state).        *)
(*                                                                         *)
(* Handlers are async functions: every `await redisService.x(...)` is a    *)
(* suspension point.  A suspended handler is a task record waiting in one  *)
(* of two queues: microQ (the awaited call returned without I/O: cache     *)
(* hit or blocked call, resumed from the microtask queue before any other  *)
(* event) and ioQ (a command was sent to the store; replies come back in   *)
(* the order the commands were sent on the single connection).             *)
(***************************************************************************)
EXTENDS Integers, Sequences, FiniteSets, TLC

\* ------------------------------------------------------------------ bounds
NumSessions == 2
NumWorkspaces == 2
NumPeers == 1
\* Workspaces that sessions of several instances use.
NumFleetWorkspaces == 1
MaxTasks == 2
\* Socket events, sweeps and peer writes one behaviour goes through.
MaxEvents == 4
\* Half sweep intervals of the typing sweeper that pass.
MaxTicks == 4
\* Sessions that send chat events.
NumChatSessions == 1
\* Note ids; the same id is used in every workspace.
NumNotes == 1
\* Client addresses that open connections.
NumIps == 2
\* Steps of time one behaviour of the handshake goes through.
MaxRateTicks == 2
\* Handshakes of one behaviour in which the store changes its state.
MaxShakes == 6
\* Calls of initialize() that are pending at one time.
MaxReconnectTimers == 7

Sessions == 1..NumSessions
Workspaces == 1..NumWorkspaces
FleetWorkspaces == 1..NumFleetWorkspaces
ChatSessions == 1..NumChatSessions
\* Sessions held by other server instances that share the store.
PeerSessions == (NumSessions + 1)..(NumSessions + NumPeers)
\* The users of the model.  Users are interchangeable, so the n-th session
\* signs in as one of the first n users.
Emails == <<"alice", "bob">>
EmailSet == {Emails[i] : i \in 1..Len(Emails)}
EmailsFor(s) == {Emails[i] : i \in {j \in 1..Len(Emails) : j <= s}}
NoUser == [email |-> "", snap |-> 0]
NoMsg == [id |-> -1, email |-> "", content |-> ""]
\* The user a session of another instance is signed in as.
PeerUser(p) == [email |-> Emails[1], snap |-> p]

\* Store keys: `workspace:{id}:users`.
WorkspaceKey(w) == <<"workspace", w>>
\* `chat:{id}:messages` and `chat:{id}:typing`.
ChatKey(w) == <<"chat", w>>
TypingKey(w) == <<"typing", w>>
\* `task:{id}:agenda_users`.
AgendaKey(w) == <<"agenda", w>>
\* `collection:{workspace}:{collection}:users`, for the one collection of a workspace.
CollectionKey(w) == <<"collection", w>>
Keys == {WorkspaceKey(w) : w \in Workspaces} \cup {ChatKey(w) : w \in Workspaces}
          \cup {TypingKey(w) : w \in Workspaces} \cup {AgendaKey(w) : w \in Workspaces}
          \cup {CollectionKey(w) : w \in Workspaces}
\* Objects of the JavaScript heap that hold a store value (a presence record).
\* The cache holds one reference per key and every suspended handler at most one.
ObjIds == 1..(3 * NumWorkspaces + MaxTasks + 1)

NoteIds == 1..NumNotes
Ips == 1..NumIps
\* Texts that sessions submit as note content, and the value of a missing entry.
Contents == {"a", "b"}
Undefined == "<undefined>"
\* The value of a workspaceId the payload does not carry.
NoWorkspace == 0
\* Transport rooms other than the workspace rooms.
NoteRoom(w, n) == <<"note", w, n>>
\* The workspace value handleLeaveNote is called with on a disconnect.
UnknownWorkspace == 0
NoteWorkspaces == Workspaces \cup {UnknownWorkspace}
\* noteUsers.get(noteId) before the first join of the note: no list.
NoList == [has |-> FALSE, list |-> <<>>]
\* collectionUsers before the first join of the collection: no Map.
NoCollection == [has |-> FALSE, map |-> <<>>]
\* The transport room `{workspace}:{collection}`.
CollectionRoom(w) == <<"collection", w>>
\* The cursor position sessions send, and the null of a withdrawn cursor.
Cursor == "cursor"

VARIABLES
  sessions,              \* session -> "idle" | "connected" | "disconnected"
  userOf,                \* session -> email of its user ("" before it connects)
  wsKeys,                \* Object.keys(workspaceSockets), in creation order
  workspaceSockets,      \* workspace -> Map(socketId -> userData), insertion ordered
  pendingDisconnections, \* Map(socketId -> {userData, workspaceId, timeout}), insertion ordered
  timers,                \* live setTimeout handles of handleDisconnect: <<socketId, workspaceId>>
  rooms,                 \* transport rooms: <<socketId, workspaceId>>
  redisKeys,             \* keys that exist in the store
  redisData,             \* key -> stored (serialised) value
  localCache,            \* RedisService.localCache: key -> heap object (0: no live entry)
  cacheEnabled,          \* RedisService.cacheEnabled
  isConnected,           \* RedisService.isConnected
  circuitOpen,           \* RedisService.circuitOpen
  circuitResetTime,      \* RedisService.circuitResetTime, in ms from now (-1: passed)
  failureCount,          \* RedisService.failureCount
  reconnectAttempts,     \* RedisService.reconnectAttempts
  reconnectTimers,       \* the pending calls of initialize(): [kind, left (ms from now)]
  client,                \* RedisService.client has been created
  store,                 \* the store: "up" | "degraded" (rejects commands) | "down"
  workspaceMessages,     \* ChatHandler: workspace -> message history of this process
  typingUsers,           \* ChatHandler: workspace -> Map(email -> {name, timestamp})
  now,                   \* Date.now(), in ms since the process started
  typingSweepAt,         \* when the typing sweeper of _startTypingCleanup runs next
  heap,                  \* object id -> value; handlers and the cache share references
  microQ,                \* suspended handlers whose awaited call returned without I/O
  ioQ,                   \* suspended handlers waiting for a store reply, in send order
  out,                   \* events emitted by the last step
  events,                \* number of socket events, sweeps and peer writes so far
  hist,                  \* history (ghost) record used to state the properties
  namedRooms,            \* transport rooms of the note and task handlers: <<socketId, room>>
  noteUsers,             \* NoteHandler noteUsers: noteId -> Array<{id, userData}>
  noteContents,          \* NoteHandler noteContents: noteId -> content
  noteStore,             \* the store values `note:{workspace}:{note}:content`
  noteUsersStore,        \* the store values `note:{workspace}:{note}:users`
  noteCache,             \* RedisService.localCache entries of the note content keys
  agendaUsers,           \* TaskHandler agendaUsers: workspace -> Map(socketId -> userData)
  errorCount,            \* MetricsService metrics.errors.count
  rateLimitMap,          \* auth.js rateLimitMap: IP -> {count, lastReset}
  rateSweepAt,           \* when the cleanup interval of rateLimitMap runs next
  collectionUsers,       \* CollectionHandler collectionUsers: workspace -> [has, map]
  authCache,             \* tokens whose `blacklist:{token}` value is in the local cache
  seen                   \* history (ghost) record of the note, task and handshake properties

vars == <<sessions, userOf, wsKeys, workspaceSockets, pendingDisconnections, timers, rooms,
          redisKeys, redisData, localCache, cacheEnabled, isConnected, circuitOpen,
          circuitResetTime, failureCount, reconnectAttempts, reconnectTimers, client, store,
          workspaceMessages, typingUsers, now, typingSweepAt,
          heap, microQ, ioQ, out, events, hist,
          namedRooms, noteUsers, noteContents, noteStore, noteUsersStore, noteCache,
          agendaUsers, errorCount, rateLimitMap, rateSweepAt, authCache, collectionUsers,
          seen>>

clientVars == <<cacheEnabled, isConnected, circuitOpen, circuitResetTime, failureCount,
                reconnectAttempts, reconnectTimers, client, store>>
chatVars == <<workspaceMessages, typingUsers, now, typingSweepAt>>
noteVars == <<noteUsers, noteContents, noteStore, noteUsersStore, noteCache>>
authVars == <<rateLimitMap, rateSweepAt, authCache>>
extVars == <<namedRooms, noteVars, agendaUsers, errorCount, authVars, collectionUsers, seen>>
extRest == <<namedRooms, noteVars, agendaUsers, errorCount, authVars, collectionUsers>>
\* The history entry of an event whose payload lacks a required field.
Malformed(ev, s, n) == [ev |-> ev, sid |-> s, seq |-> n]

\* The user snapshot a session sends with its events (email plus the rest of
\* the snapshot, which differs from session to session).
UserData(s) == [email |-> userOf[s], snap |-> s]

\* One more event is taken while the behaviour is below its bound.
CountEvent == events < MaxEvents /\ events' = events + 1

\* The last call made on the client or its connection: was the breaker open with
\* its reset instant not passed, was a command sent, was the result a failure value.
NoCall == [op |-> "none", open |-> FALSE, sent |-> FALSE, failed |-> FALSE, result |-> ""]

\* ------------------------------------------------- insertion-ordered maps
\* A Map / plain object is a sequence of [sid, user] entries in insertion order.
HasKey(m, k) == \E i \in 1..Len(m) : m[i].sid = k
Lookup(m, k) == m[CHOOSE i \in 1..Len(m) : m[i].sid = k].user
Remove(m, k) == SelectSeq(m, LAMBDA x : x.sid # k)
Put(m, k, u) ==
  IF HasKey(m, k)
  THEN [i \in 1..Len(m) |-> IF m[i].sid = k THEN [sid |-> k, user |-> u] ELSE m[i]]
  ELSE Append(m, [sid |-> k, user |-> u])
Values(m) == [i \in 1..Len(m) |-> m[i].user]
KeySet(m) == {m[i].sid : i \in 1..Len(m)}

\* ------------------------------------------------------------ tasks, heap
Task(kind, s, w) ==
  [kind |-> kind, sid |-> s, w |-> w, pc |-> "afterGet", obj |-> 0, path |-> "none",
   has |-> FALSE, val |-> <<>>, user |-> NoUser, existing |-> FALSE,
   todo |-> {}, timer |-> FALSE, msg |-> NoMsg, seq |-> 0, n |-> 0, content |-> Undefined]

NumTasks == Len(microQ) + Len(ioQ)
\* The handler that runs next: microtasks first, then the oldest store reply.
Ready == microQ # <<>> \/ ioQ # <<>>
NextTask == IF microQ # <<>> THEN Head(microQ) ELSE Head(ioQ)
RestMicro == IF microQ # <<>> THEN Tail(microQ) ELSE microQ
RestIo == IF microQ # <<>> THEN ioQ ELSE Tail(ioQ)
\* `await`: the handler is resumed from the microtask queue when the call made no
\* I/O, from the reply queue otherwise.
AwaitMicro(t, mq) == IF t.path = "io" THEN mq ELSE Append(mq, t)
AwaitIo(t, iq) == IF t.path = "io" THEN Append(iq, t) ELSE iq

Refs(cache, mq, iq) ==
  ({cache[k] : k \in Keys} \cup {mq[i].obj : i \in 1..Len(mq)}
     \cup {iq[i].obj : i \in 1..Len(iq)}) \ {0}
\* Unreferenced objects are garbage: their slot is cleared.
Collect(h, refs) == [o \in ObjIds |-> IF o \in refs THEN h[o] ELSE <<>>]
NewObj(cache, mq, iq, t) ==
  CHOOSE o \in ObjIds :
    /\ o \notin Refs(cache, mq, iq) \cup {t.obj}
    /\ \A p \in ObjIds : p < o => p \in Refs(cache, mq, iq) \cup {t.obj}

\* ------------------------------------------------- shared-state client
\* RedisService.get up to its first await: a cache hit returns the cached value
\* itself (the same object), a blocked call returns null, otherwise GET is sent.
GetCallC(t, key, cache) ==
  IF cacheEnabled /\ cache[key] # 0
  THEN [t EXCEPT !.path = "hit", !.obj = cache[key]]
  ELSE IF ~isConnected \/ circuitOpen
  THEN [t EXCEPT !.path = "blocked", !.obj = 0]
  ELSE [t EXCEPT !.path = "io", !.obj = 0, !.has = key \in redisKeys,
                 !.val = redisData[key]]

GetCall(t, key) == GetCallC(t, key, localCache)

\* RedisService.get after the reply: a found value is parsed into a fresh object
\* and cached; `(await get(key)) || {}` makes a fresh empty object of null.
\* Result: [obj, heap, cache].
GetReturn(t, key) ==
  IF t.path = "hit"
  THEN [obj |-> t.obj, heap |-> heap, cache |-> localCache]
  ELSE LET o == NewObj(localCache, RestMicro, RestIo, t) IN
       IF t.path = "io" /\ t.has
       THEN [obj |-> o, heap |-> [heap EXCEPT ![o] = t.val],
             cache |-> IF cacheEnabled THEN [localCache EXCEPT ![key] = o]
                       ELSE localCache]
       ELSE [obj |-> o, heap |-> [heap EXCEPT ![o] = <<>>], cache |-> localCache]

\* RedisService.set up to its await: blocked, or SET is sent with the value as
\* serialised at the time of the call.
SetBlocked == ~isConnected \/ circuitOpen
SetPath == IF SetBlocked THEN "blocked" ELSE "io"
SetKeys(key) == IF SetBlocked THEN redisKeys ELSE redisKeys \cup {key}
SetData(key, v) == IF SetBlocked THEN redisData ELSE [redisData EXCEPT ![key] = v]
\* The value is cached with no look at cacheEnabled.
SetReturn_Always(t, key, cache) ==
  IF t.path = "io" THEN [cache EXCEPT ![key] = t.obj] ELSE cache

\* RedisService.set after the reply: the cache entry is the value object itself.
SetReturn(t, key, cache) ==
  IF t.path = "io" /\ cacheEnabled THEN [cache EXCEPT ![key] = t.obj] ELSE cache

\* ------------------------------------------------------------- emissions
Emit(ev, w, to, users, s) == [ev |-> ev, w |-> w, to |-> to, users |-> users, sid |-> s]

\* The payload sent as it is read from the record.
removeDuplicateUsers_Raw(users) == users

\* WorkspaceHandler.removeDuplicateUsers: the first user of every email.
removeDuplicateUsers(users) ==
  LET first == SelectSeq([i \in 1..Len(users) |-> i],
                         LAMBDA i : \A j \in 1..(i - 1) : users[j].email # users[i].email)
  IN [k \in 1..Len(first) |-> users[first[k]]]

Min(S) == CHOOSE x \in S : \A y \in S : x <= y
Inc(n) == IF n < 2 THEN n + 1 ELSE n
IndexOf(seq, x) == CHOOSE i \in 1..Len(seq) : seq[i] = x

\* ------------------------------------------------------ chat: typing state
MESSAGE_LIMIT == 100
TYPING_TIMEOUT == 5000
\* Events arrive at the instants of the sweeper or halfway between two of them.
HalfInterval == TYPING_TIMEOUT \div 2

\* A typing Map is a sequence of [email, timestamp] entries in insertion order.
TypingHas(m, e) == \E i \in 1..Len(m) : m[i].email = e
TypingDelete(m, e) == SelectSeq(m, LAMBDA x : x.email # e)
TypingSet(m, e, ts) ==
  IF TypingHas(m, e)
  THEN [i \in 1..Len(m) |-> IF m[i].email = e THEN [email |-> e, timestamp |-> ts]
                                             ELSE m[i]]
  ELSE Append(m, [email |-> e, timestamp |-> ts])

\* One user_stop_typing broadcast to the room of w for every entry of gone.
StopTypingEmits(w, gone) ==
  [i \in 1..Len(gone) |->
     Emit("user_stop_typing", w, 0, <<[email |-> gone[i].email, snap |-> 0]>>, 0)]

RECURSIVE EmitsUpTo(_, _)
\* The broadcasts for the entries gone(w) of the workspaces 1..n.
EmitsUpTo(n, gone) ==
  IF n = 0 THEN <<>> ELSE EmitsUpTo(n - 1, gone) \o StopTypingEmits(n, gone[n])

\* History: typingEvent is the number of the last user_typing event of an email
\* in a workspace (0 when a user_stop_typing or new_message of the email came
\* after it); stops counts the user_stop_typing broadcasts since the user_typing
\* broadcast of that event (-1 before it).
CountStops(st, emits) ==
  [w \in Workspaces |-> [e \in EmailSet |->
     IF st[w][e] >= 0 /\ \E i \in 1..Len(emits) :
                            /\ emits[i].ev = "user_stop_typing"
                            /\ emits[i].w = w
                            /\ emits[i].users[1].email = e
     THEN Inc(st[w][e]) ELSE st[w][e]]]

\* ChatHandler.handleDisconnect: the typing entries of the user of the socket,
\* per workspace.
ChatDisconnectGone(s) ==
  [w \in Workspaces |-> SelectSeq(typingUsers[w], LAMBDA x : x.email = userOf[s])]

\* ------------------------------------------------------------ note handler
coreVars == <<sessions, userOf, wsKeys, workspaceSockets, pendingDisconnections, timers, rooms,
              redisKeys, redisData, localCache, heap, hist, clientVars, chatVars>>

\* Sessions in a transport room: the recipients of io.to(room) and io.in(room); those
\* of socket.to(room) and of socket.emit.
\* MetricsService.errorOccurred.
errorOccurred(count) == count + 1

Members(rs, room) == {s \in Sessions : <<s, room>> \in rs}
SocketTo_All(rs, s, room) == Members(rs, room)
SocketTo(rs, s, room) == Members(rs, room) \ {s}
SocketEmit(s) == IF sessions[s] = "connected" THEN {s} ELSE {}
Deliver(ev, room, rcpt, users, s, content) ==
  [ev |-> ev, w |-> room[2], to |-> 0, users |-> users, sid |-> s,
   room |-> room, rcpt |-> rcpt, content |-> content]

\* `!content`: undefined, null and the empty string.
Falsy(c) == c \in {Undefined, ""}
\* usersList.findIndex(u => u.userData.id === userData.id); 0 stands for -1.
UserIndex(list, u) ==
  LET I == {i \in 1..Len(list) : list[i].userData.email = u.email}
  IN IF I = {} THEN 0 ELSE Min(I)
\* usersList.findIndex(u => u.id === socket.id)
SocketIndex(list, s) ==
  LET I == {i \in 1..Len(list) : list[i].id = s}
  IN IF I = {} THEN 0 ELSE Min(I)
\* usersList.splice(i, 1)
Splice(list, i) == [j \in 1..(Len(list) - 1) |-> IF j < i THEN list[j] ELSE list[j + 1]]
\* usersList.map(u => u.userData)
UserDatas(list) == [i \in 1..Len(list) |-> list[i].userData]
\* Every join adds an entry.
JoinList_Push(list, s, u) == Append(list, [id |-> s, userData |-> u])

\* The entry of a user already in the list gets the new socket id and keeps its
\* snapshot; another user is appended.
JoinList(list, s, u) ==
  LET i == UserIndex(list, u)
  IN IF i > 0 THEN [list EXCEPT ![i].id = s]
     ELSE Append(list, [id |-> s, userData |-> u])

\* The sessions that entered a presence scope and have not left it, in the
\* order of their latest entry.
Exit(js, s, room) == SelectSeq(js, LAMBDA x : x # <<s, room>>)
Enter(js, s, room) == Append(Exit(js, s, room), <<s, room>>)

AwaitMicroAll(ts, mq) == mq \o SelectSeq(ts, LAMBDA t : t.path # "io")
AwaitIoAll(ts, iq) == iq \o SelectSeq(ts, LAMBDA t : t.path = "io")

\* A handleJoinNote call of session s is suspended.
Joining(s) ==
  \E q \in {microQ, ioQ} : \E i \in 1..Len(q) : q[i].kind = "noteJoin" /\ q[i].sid = s

\* handleJoinNote up to `await redisService.set(redisKey, usersList)`.
join_note(s, w, n) ==
  /\ UNCHANGED collectionUsers
  /\ CountEvent
  /\ sessions[s] = "connected"
  /\ microQ = <<>>
  /\ NumTasks < MaxTasks
  /\ namedRooms' = namedRooms \cup {<<s, NoteRoom(w, n)>>}
  /\ noteUsers' = [noteUsers EXCEPT
                     ![n] = [has |-> TRUE, list |-> JoinList(@.list, s, UserData(s))]]
  /\ noteUsersStore' = IF SetBlocked THEN noteUsersStore
                       ELSE [noteUsersStore EXCEPT ![w][n] = noteUsers'[n].list]
  /\ LET t == [Task("noteJoin", s, w) EXCEPT !.n = n, !.pc = "afterSet", !.path = SetPath]
     IN /\ microQ' = AwaitMicro(t, microQ)
        /\ ioQ' = AwaitIo(t, ioQ)
  /\ out' = <<>>
  /\ seen' = [seen EXCEPT !.noteIn = @ \cup {<<s, w, n>>},
                           !.joined = Enter(@, s, NoteRoom(w, n)),
                           !.dirty = IF Joining(s) THEN @ ELSE @ \ {s}]
  /\ UNCHANGED <<noteContents, noteStore, noteCache, coreVars, authVars, agendaUsers, errorCount>>

\* redisService.get(redisContentKey) up to its await.
NoteGetCall(t) ==
  IF cacheEnabled /\ noteCache[t.w][t.n] # Undefined
  THEN [t EXCEPT !.pc = "afterGet", !.path = "hit", !.content = noteCache[t.w][t.n]]
  ELSE IF ~isConnected \/ circuitOpen
  THEN [t EXCEPT !.pc = "afterGet", !.path = "blocked", !.content = Undefined]
  ELSE [t EXCEPT !.pc = "afterGet", !.path = "io", !.content = noteStore[t.w][t.n]]

\* The two emissions that end handleJoinNote.
JoinEmits(t, content, list) ==
  <<Deliver("note_content_loaded", NoteRoom(t.w, t.n), SocketEmit(t.sid), <<>>, t.sid,
            IF Falsy(content) THEN "" ELSE content),
    Deliver("note_users_updated", NoteRoom(t.w, t.n), Members(namedRooms, NoteRoom(t.w, t.n)),
            UserDatas(list), t.sid, Undefined)>>

\* handleJoinNote after the users key was written: the content is taken from
\* noteContents, or asked from the store when that has none.
NoteJoinAfterSet ==
  /\ UNCHANGED collectionUsers
  /\ events' = events
  /\ Ready
  /\ LET t == NextTask IN
     /\ t.kind = "noteJoin" /\ t.pc = "afterSet"
     /\ IF Falsy(noteContents[t.n])
        THEN LET g == NoteGetCall(t) IN
             /\ microQ' = AwaitMicro(g, RestMicro)
             /\ ioQ' = AwaitIo(g, RestIo)
             /\ out' = <<>>
        ELSE /\ microQ' = RestMicro
             /\ ioQ' = RestIo
             /\ out' = JoinEmits(t, noteContents[t.n], noteUsers[t.n].list)
  /\ UNCHANGED <<namedRooms, noteVars, seen, coreVars, authVars, agendaUsers, errorCount>>

\* handleJoinNote after `await redisService.get(redisContentKey)`.
NoteJoinAfterGet ==
  /\ UNCHANGED collectionUsers
  /\ events' = events
  /\ Ready
  /\ LET t == NextTask IN
     /\ t.kind = "noteJoin" /\ t.pc = "afterGet"
     /\ noteCache' = IF t.path = "io" /\ ~Falsy(t.content) /\ cacheEnabled
                     THEN [noteCache EXCEPT ![t.w][t.n] = t.content] ELSE noteCache
     /\ noteContents' = IF Falsy(t.content) THEN noteContents
                        ELSE [noteContents EXCEPT ![t.n] = t.content]
     /\ out' = JoinEmits(t, t.content, noteUsers[t.n].list)
  /\ microQ' = RestMicro
  /\ ioQ' = RestIo
  /\ UNCHANGED <<namedRooms, noteUsers, noteStore, noteUsersStore, seen, coreVars, authVars, agendaUsers, errorCount>>

\* handleLeaveNote(socket, w, n) up to `await redisService.set(redisKey, usersList)`,
\* on the state st = [users, ustore, tasks]; nothing happens when the socket has
\* no entry in the list of the note.
LeaveNote(st, s, w, n) ==
  LET list == st.users[n].list
      i == SocketIndex(list, s)
  IN IF ~st.users[n].has \/ i = 0 THEN st
     ELSE [users |-> [st.users EXCEPT ![n].list = Splice(list, i)],
           ustore |-> IF SetBlocked THEN st.ustore
                      ELSE [st.ustore EXCEPT ![w][n] = Splice(list, i)],
           tasks |-> Append(st.tasks, [Task("noteLeave", s, w) EXCEPT
                                         !.n = n, !.pc = "afterSet", !.path = SetPath,
                                         !.user = list[i].userData])]

leave_note(s, w, n) ==
  /\ UNCHANGED collectionUsers
  /\ CountEvent
  /\ sessions[s] = "connected"
  /\ microQ = <<>>
  /\ NumTasks < MaxTasks
  /\ LET st == LeaveNote([users |-> noteUsers, ustore |-> noteUsersStore, tasks |-> <<>>],
                         s, w, n)
     IN /\ noteUsers' = st.users
        /\ noteUsersStore' = st.ustore
        /\ microQ' = AwaitMicroAll(st.tasks, microQ)
        /\ ioQ' = AwaitIoAll(st.tasks, ioQ)
  /\ out' = <<>>
  /\ seen' = [seen EXCEPT !.noteIn = @ \ {<<s, w, n>>},
                           !.joined = Exit(@, s, NoteRoom(w, n))]
  /\ UNCHANGED <<namedRooms, noteContents, noteStore, noteCache, coreVars, authVars, agendaUsers, errorCount>>

\* handleLeaveNote after the users key was written: the socket leaves the room,
\* then the list and the withdrawn cursor are announced.
NoteLeaveAfterSet ==
  /\ UNCHANGED collectionUsers
  /\ events' = events
  /\ Ready
  /\ LET t == NextTask
         room == NoteRoom(NextTask.w, NextTask.n)
     IN /\ t.kind = "noteLeave"
        /\ namedRooms' = namedRooms \ {<<t.sid, room>>}
        /\ out' = <<Deliver("note_users_updated", room, Members(namedRooms', room),
                            UserDatas(noteUsers[t.n].list), t.sid, Undefined),
                    Deliver("cursor_updated", room, SocketTo(namedRooms', t.sid, room),
                            <<t.user>>, t.sid, Undefined)>>
  /\ microQ' = RestMicro
  /\ ioQ' = RestIo
  /\ UNCHANGED <<noteVars, seen, coreVars, authVars, agendaUsers, errorCount>>

\* handleCursorUpdate: no await.
cursor_update(s, w, n) ==
  /\ UNCHANGED collectionUsers
  /\ CountEvent
  /\ sessions[s] = "connected"
  /\ microQ = <<>>
  /\ LET list == noteUsers[n].list
         i == SocketIndex(list, s)
     IN out' = IF noteUsers[n].has /\ i > 0
               THEN <<Deliver("cursor_updated", NoteRoom(w, n),
                              Members(namedRooms, NoteRoom(w, n)), <<list[i].userData>>, s,
                              Cursor)>>
               ELSE <<>>
  /\ seen' = [seen EXCEPT !.cursor = [on |-> TRUE, sid |-> s,
                                      member |-> <<s, w, n>> \in seen.noteIn,
                                      members |-> {x \in Sessions : <<x, w, n>> \in seen.noteIn},
                                      out |-> out']]
  /\ UNCHANGED <<namedRooms, noteVars, microQ, ioQ, coreVars, authVars, agendaUsers, errorCount>>

\* handleContentUpdate up to `await redisService.set(redisKey, content, 604800)`.
note_content_update(s, w, n, c) ==
  /\ UNCHANGED collectionUsers
  /\ CountEvent
  /\ sessions[s] = "connected"
  /\ microQ = <<>>
  /\ NumTasks < MaxTasks
  /\ IF noteUsers[n].has /\ c = Undefined
     THEN \* `content.length` raises; the catch counts the error and tells the sender.
          /\ out' = <<Deliver("error", NoteRoom(w, n), SocketEmit(s), <<>>, s, Undefined)>>
          /\ errorCount' = errorOccurred(errorCount)
          /\ seen' = [seen EXCEPT !.failed = s,
                                  !.malformed = Malformed("note_content_update", s, events')]
          /\ UNCHANGED <<noteContents, noteStore, microQ, ioQ>>
     ELSE IF noteUsers[n].has
     THEN /\ noteContents' = [noteContents EXCEPT ![n] = c]
          /\ noteStore' = IF SetBlocked THEN noteStore ELSE [noteStore EXCEPT ![w][n] = c]
          /\ LET t == [Task("noteContent", s, w) EXCEPT
                         !.n = n, !.pc = "afterSet", !.path = SetPath, !.content = c]
             IN /\ microQ' = AwaitMicro(t, microQ)
                /\ ioQ' = AwaitIo(t, ioQ)
          /\ seen' = [seen EXCEPT
                        !.accepted = @ \cup {[sid |-> s, w |-> w, n |-> n, content |-> c]},
                        !.updates = @ + 1,
                        !.submitted[w][n] = @ \cup {c},
                        !.latest[w][n] = c,
                        !.dirty = @ \cup {x \in Sessions :
                                            \E q \in {microQ, ioQ} : \E i \in 1..Len(q) :
                                              /\ q[i].kind = "noteJoin" /\ q[i].sid = x
                                              /\ q[i].w = w /\ q[i].n = n}]
          /\ out' = <<>>
          /\ errorCount' = errorCount
     ELSE /\ out' = <<>>
          /\ seen' = IF c = Undefined
                     THEN [seen EXCEPT
                             !.malformed = Malformed("note_content_update", s, events')]
                     ELSE seen
          /\ UNCHANGED <<noteContents, noteStore, microQ, ioQ, errorCount>>
  /\ UNCHANGED <<namedRooms, noteUsers, noteUsersStore, noteCache, coreVars, authVars, agendaUsers>>

\* handleContentUpdate after the content key was written.
NoteContentAfterSet ==
  /\ UNCHANGED collectionUsers
  /\ events' = events
  /\ Ready
  /\ LET t == NextTask IN
     /\ t.kind = "noteContent"
     /\ noteCache' = IF t.path = "io" /\ cacheEnabled
                     THEN [noteCache EXCEPT ![t.w][t.n] = t.content] ELSE noteCache
     /\ out' = <<Deliver("note_content_updated", NoteRoom(t.w, t.n),
                         SocketTo(namedRooms, t.sid, NoteRoom(t.w, t.n)), <<>>, t.sid,
                         t.content)>>
  /\ microQ' = RestMicro
  /\ ioQ' = RestIo
  /\ seen' = [seen EXCEPT !.emitted = @ + 1]
  /\ UNCHANGED <<namedRooms, noteUsers, noteContents, noteStore, noteUsersStore, coreVars, authVars, agendaUsers, errorCount>>

\* The cache entry of a content key outlives cacheTTL.
NoteCacheExpire(w, n) ==
  /\ UNCHANGED collectionUsers
  /\ CountEvent
  /\ noteCache[w][n] # Undefined
  /\ microQ = <<>>
  /\ noteCache' = [noteCache EXCEPT ![w][n] = Undefined]
  /\ out' = <<>>
  /\ UNCHANGED <<namedRooms, noteUsers, noteContents, noteStore, noteUsersStore, seen,
                 microQ, ioQ, coreVars, authVars, agendaUsers, errorCount>>

\* NoteHandler.handleDisconnect: handleLeaveNote(socket, "unknown", noteId) for
\* every note whose list holds the socket.
RECURSIVE NoteDisconnectFrom(_, _, _)
NoteDisconnectFrom(st, s, n) ==
  IF n > NumNotes THEN st
  ELSE NoteDisconnectFrom(LeaveNote(st, s, UnknownWorkspace, n), s, n + 1)
NoteDisconnect(s) ==
  NoteDisconnectFrom([users |-> noteUsers, ustore |-> noteUsersStore, tasks |-> <<>>], s, 1)

\* ------------------------------------------------------------ task handler
\* `agenda:{id}`, and the room `workspace:{id}` the task handler notifies.
AgendaRoom(w) == <<"agenda", w>>
WorkspaceNotifyRoom(w) == <<"workspace:", w>>
\* The sessions that handleJoinWorkspace put into the room of workspace w.
WorkspaceRoom(w) == {s \in Sessions : <<s, w>> \in rooms}
TaskEvents == {"task_created", "task_updated", "task_deleted", "task_moved"}
Twin(ev) ==
  CASE ev = "task_created" -> "workspace_task_created"
    [] ev = "task_updated" -> "workspace_task_updated"
    [] ev = "task_deleted" -> "workspace_task_deleted"
    [] ev = "task_moved" -> "workspace_task_moved"
taskRest == <<sessions, userOf, wsKeys, workspaceSockets, pendingDisconnections, timers, rooms,
              hist, clientVars, chatVars, noteVars, authVars>>

\* handleTaskCreated, handleTaskUpdated, handleTaskDeleted, handleTaskMoved.
\* Without a payload `const { workspaceId, ... } = taskData` throws and the
\* catch block counts the error.
task_event(s, w, ev, taskData) ==
  /\ UNCHANGED collectionUsers
  /\ CountEvent
  /\ sessions[s] = "connected"
  /\ microQ = <<>>
  /\ IF taskData = Undefined
     THEN /\ out' = <<>>
          /\ errorCount' = errorOccurred(errorCount)
          /\ seen' = [seen EXCEPT !.failed = s]
     ELSE /\ out' = <<Deliver(ev, AgendaRoom(w), SocketTo(namedRooms, s, AgendaRoom(w)),
                              <<>>, s, "timestamp"),
                      Deliver(Twin(ev), WorkspaceNotifyRoom(w),
                              Members(namedRooms, WorkspaceNotifyRoom(w)), <<>>, s,
                              "timestamp")>>
          /\ UNCHANGED <<errorCount, seen>>
  /\ UNCHANGED <<namedRooms, agendaUsers, redisKeys, redisData, localCache, heap,
                 microQ, ioQ, taskRest>>

\* handleJoinAgenda up to `await redisService.get(redisKey)`.
join_agenda(s, w, hasUserData) ==
  /\ UNCHANGED collectionUsers
  /\ CountEvent
  /\ sessions[s] = "connected"
  /\ microQ = <<>>
  /\ IF ~hasUserData
     THEN \* `userData.id` throws; the catch block counts and reports the error.
          /\ out' = <<Deliver("error", AgendaRoom(w), SocketEmit(s), <<>>, s, Undefined)>>
          /\ errorCount' = errorOccurred(errorCount)
          /\ seen' = [seen EXCEPT !.failed = s]
          /\ UNCHANGED <<agendaUsers, microQ, ioQ>>
     ELSE /\ NumTasks < MaxTasks
          /\ agendaUsers' = [agendaUsers EXCEPT ![w] = Put(@, s, UserData(s))]
          /\ LET t == GetCall([Task("agendaJoin", s, w) EXCEPT !.user = UserData(s)],
                              AgendaKey(w))
             IN /\ microQ' = AwaitMicro(t, microQ)
                /\ ioQ' = AwaitIo(t, ioQ)
          /\ out' = <<>>
          /\ seen' = [seen EXCEPT !.joined = Enter(@, s, AgendaRoom(w))]
          /\ UNCHANGED errorCount
  /\ UNCHANGED <<namedRooms, redisKeys, redisData, localCache, heap, taskRest>>

\* handleJoinAgenda between its two awaits: the record read is extended and written.
AgendaJoinAfterGet ==
  /\ UNCHANGED collectionUsers
  /\ events' = events
  /\ Ready /\ NextTask.kind = "agendaJoin" /\ NextTask.pc = "afterGet"
  /\ LET t == NextTask
         key == AgendaKey(t.w)
         r == GetReturn(t, key)
         cur == Put(r.heap[r.obj], t.sid, t.user)
         t2 == [t EXCEPT !.obj = r.obj, !.pc = "afterSet", !.path = SetPath,
                         !.has = FALSE, !.val = <<>>]
     IN /\ redisKeys' = SetKeys(key)
        /\ redisData' = SetData(key, cur)
        /\ localCache' = r.cache
        /\ microQ' = AwaitMicro(t2, RestMicro)
        /\ ioQ' = AwaitIo(t2, RestIo)
        /\ heap' = Collect([r.heap EXCEPT ![r.obj] = cur], Refs(localCache', microQ', ioQ'))
  /\ out' = <<>>
  /\ UNCHANGED <<namedRooms, agendaUsers, errorCount, seen, taskRest>>

\* handleJoinAgenda after the write: room join and the two notifications.
AgendaJoinAfterSet ==
  /\ UNCHANGED collectionUsers
  /\ events' = events
  /\ Ready /\ NextTask.kind = "agendaJoin" /\ NextTask.pc = "afterSet"
  /\ LET t == NextTask IN
     /\ localCache' = SetReturn(t, AgendaKey(t.w), localCache)
     \* A socket that closed meanwhile is in no room that delivers to it.
     /\ namedRooms' = IF sessions[t.sid] = "connected"
                      THEN namedRooms \cup {<<t.sid, AgendaRoom(t.w)>>}
                      ELSE namedRooms
     /\ out' = <<Deliver("agenda_user_joined", WorkspaceNotifyRoom(t.w),
                         Members(namedRooms', WorkspaceNotifyRoom(t.w)), <<t.user>>, t.sid,
                         Undefined),
                 Deliver("agenda_users_updated", AgendaRoom(t.w),
                         Members(namedRooms', AgendaRoom(t.w)), Values(heap[t.obj]), t.sid,
                         Undefined)>>
  /\ microQ' = RestMicro
  /\ ioQ' = RestIo
  /\ heap' = Collect(heap, Refs(localCache', microQ', ioQ'))
  /\ UNCHANGED <<agendaUsers, errorCount, seen, redisKeys, redisData, taskRest>>

\* handleLeaveAgenda up to `await redisService.get(redisKey)`.
leave_agenda(s, w) ==
  /\ UNCHANGED collectionUsers
  /\ CountEvent
  /\ sessions[s] = "connected"
  /\ microQ = <<>>
  /\ NumTasks < MaxTasks
  /\ agendaUsers' = [agendaUsers EXCEPT ![w] = Remove(@, s)]
  /\ LET u == IF HasKey(agendaUsers[w], s) THEN Lookup(agendaUsers[w], s) ELSE NoUser
         t == GetCall([Task("agendaLeave", s, w) EXCEPT !.user = u], AgendaKey(w))
     IN /\ microQ' = AwaitMicro(t, microQ)
        /\ ioQ' = AwaitIo(t, ioQ)
  /\ out' = <<>>
  /\ seen' = [seen EXCEPT !.joined = Exit(@, s, AgendaRoom(w))]
  /\ UNCHANGED <<namedRooms, errorCount, redisKeys, redisData, localCache, heap, taskRest>>

\* The tail of handleLeaveAgenda (the socket leaves the room; agenda_user_left
\* goes to the workspace notification room) and of the disconnect callback
\* (both events go to the agenda room).
AgendaLeaveFinish(t, user, users) ==
  /\ namedRooms' = namedRooms \ {<<t.sid, AgendaRoom(t.w)>>}
  /\ out' = IF user = NoUser THEN <<>>
            ELSE <<Deliver("agenda_user_left",
                           IF t.kind = "agendaGone" THEN AgendaRoom(t.w)
                           ELSE WorkspaceNotifyRoom(t.w),
                           Members(namedRooms', IF t.kind = "agendaGone" THEN AgendaRoom(t.w)
                                                ELSE WorkspaceNotifyRoom(t.w)),
                           <<user>>, t.sid, Undefined),
                   Deliver("agenda_users_updated", AgendaRoom(t.w),
                           Members(namedRooms', AgendaRoom(t.w)), users, t.sid, Undefined)>>

\* After the read: handleLeaveAgenda writes the record only when it holds the
\* socket; the disconnect callback always writes it.
AgendaLeaveAfterGet ==
  /\ UNCHANGED collectionUsers
  /\ events' = events
  /\ Ready /\ NextTask.kind \in {"agendaLeave", "agendaGone"} /\ NextTask.pc = "afterGet"
  /\ LET t == NextTask
         key == AgendaKey(t.w)
         r == GetReturn(t, key)
         cur == r.heap[r.obj]
         u == IF t.user # NoUser \/ ~HasKey(cur, t.sid) THEN t.user ELSE Lookup(cur, t.sid)
         t2 == [t EXCEPT !.obj = r.obj, !.pc = "afterSet", !.path = SetPath,
                         !.has = FALSE, !.val = <<>>, !.user = u]
     IN /\ localCache' = r.cache
        /\ IF HasKey(cur, t.sid) \/ t.kind = "agendaGone"
           THEN /\ redisKeys' = SetKeys(key)
                /\ redisData' = SetData(key, Remove(cur, t.sid))
                /\ microQ' = AwaitMicro(t2, RestMicro)
                /\ ioQ' = AwaitIo(t2, RestIo)
                /\ heap' = Collect([r.heap EXCEPT ![r.obj] = Remove(cur, t.sid)],
                                   Refs(localCache', microQ', ioQ'))
                /\ out' = <<>>
                /\ UNCHANGED namedRooms
           ELSE /\ AgendaLeaveFinish(t, u, Values(cur))
                /\ microQ' = RestMicro
                /\ ioQ' = RestIo
                /\ heap' = Collect(r.heap, Refs(localCache', microQ', ioQ'))
                /\ UNCHANGED <<redisKeys, redisData>>
  /\ UNCHANGED <<agendaUsers, errorCount, seen, taskRest>>

AgendaLeaveAfterSet ==
  /\ UNCHANGED collectionUsers
  /\ events' = events
  /\ Ready /\ NextTask.kind \in {"agendaLeave", "agendaGone"} /\ NextTask.pc = "afterSet"
  /\ localCache' = SetReturn(NextTask, AgendaKey(NextTask.w), localCache)
  /\ AgendaLeaveFinish(NextTask, NextTask.user, Values(heap[NextTask.obj]))
  /\ microQ' = RestMicro
  /\ ioQ' = RestIo
  /\ heap' = Collect(heap, Refs(localCache', microQ', ioQ'))
  /\ UNCHANGED <<agendaUsers, errorCount, seen, redisKeys, redisData, taskRest>>

\* TaskHandler.handleDisconnect up to the awaits of its callbacks: one read per
\* agenda that holds the socket.
AgendaGone(s) ==
  SelectSeq([w \in 1..NumWorkspaces |->
               GetCall([Task("agendaGone", s, w) EXCEPT
                          !.user = IF HasKey(agendaUsers[w], s)
                                   THEN Lookup(agendaUsers[w], s) ELSE NoUser],
                       AgendaKey(w))],
            LAMBDA t : HasKey(agendaUsers[t.w], s))

\* --------------------------------------------------- workspace presence
HasPending(pd, s) == \E i \in 1..Len(pd) : pd[i].sid = s
PendingOf(pd, s) == pd[CHOOSE i \in 1..Len(pd) : pd[i].sid = s]
DropPending(pd, s) == SelectSeq(pd, LAMBDA x : x.sid # s)
\* Map.set: a key that is already present keeps its position.
SetPending(pd, s, u, w) ==
  IF HasPending(pd, s)
  THEN [i \in 1..Len(pd) |-> IF pd[i].sid = s THEN [sid |-> s, user |-> u, w |-> w]
                                               ELSE pd[i]]
  ELSE Append(pd, [sid |-> s, user |-> u, w |-> w])

\* A new connection: socket ids are handed out in connection order.
Connect(s, e) ==
  /\ events' = events
  /\ UNCHANGED extVars
  /\ sessions[s] = "idle"
  /\ \A s0 \in Sessions : s0 < s => sessions[s0] # "idle"
  /\ microQ = <<>>
  /\ sessions' = [sessions EXCEPT ![s] = "connected"]
  /\ userOf' = [userOf EXCEPT ![s] = e]
  /\ out' = <<>>
  /\ UNCHANGED <<wsKeys, workspaceSockets, pendingDisconnections, timers, rooms,
                 redisKeys, redisData, localCache, heap, microQ, ioQ, hist, clientVars, chatVars>>

\* handleJoinWorkspace up to `await redisService.get(redisKey)`.
join_workspace(s, w) ==
  /\ CountEvent
  /\ UNCHANGED extVars
  /\ sessions[s] = "connected"
  /\ microQ = <<>>
  /\ NumTasks < MaxTasks
  /\ LET t == GetCall([Task("join", s, w) EXCEPT !.user = UserData(s)], WorkspaceKey(w))
     IN /\ microQ' = AwaitMicro(t, microQ)
        /\ ioQ' = AwaitIo(t, ioQ)
  /\ out' = <<>>
  /\ hist' = [hist EXCEPT
                !.last[s] = [ev |-> "join", w |-> w],
                !.swept = "no",
                !.rejoined = @ \cup {<<x, w>> : x \in {y \in Sessions :
                                                      /\ y # s
                                                      /\ userOf[y] = userOf[s]
                                                      /\ <<y, w>> \in timers}}]
  /\ UNCHANGED <<sessions, userOf, wsKeys, workspaceSockets, pendingDisconnections, timers, rooms,
                 redisKeys, redisData, localCache, heap, clientVars, chatVars>>

\* handleJoinWorkspace from the reply of get to `await redisService.set(...)`.
JoinAfterGet ==
  /\ events' = events
  /\ UNCHANGED extVars
  /\ Ready /\ NextTask.kind = "join" /\ NextTask.pc = "afterGet"
  /\ LET t == NextTask
         s == t.sid
         w == t.w
         e == t.user.email
         key == WorkspaceKey(w)
         r == GetReturn(t, key)
         cur == r.heap[r.obj]
         exIdx == {i \in 1..Len(cur) : cur[i].user.email = e /\ cur[i].sid # s}
         existing == exIdx # {}
         oldSid == cur[Min(exIdx)].sid
         pdIdx == {i \in 1..Len(pendingDisconnections) :
                     /\ pendingDisconnections[i].user.email = e
                     /\ pendingDisconnections[i].w = w}
         pd == pendingDisconnections[Min(pdIdx)]
         created == \E i \in 1..Len(wsKeys) : wsKeys[i] = w
         loc0 == workspaceSockets[w]
         loc1 == IF existing /\ created THEN Remove(loc0, oldSid) ELSE loc0
         loc2 == IF created
                 THEN SelectSeq(loc1, LAMBDA x : ~(x.user.email = e /\ x.sid # s))
                 ELSE <<>>
         cur1 == IF existing THEN Remove(cur, oldSid) ELSE cur
         cur2 == Put(cur1, s, t.user)
         t2 == [t EXCEPT !.obj = r.obj, !.pc = "afterSet", !.existing = existing,
                         !.path = SetPath, !.has = FALSE, !.val = <<>>]
     IN /\ pendingDisconnections' =
             IF pdIdx # {} THEN DropPending(pendingDisconnections, pd.sid)
             ELSE pendingDisconnections
        /\ timers' = IF pdIdx # {} THEN timers \ {<<pd.sid, pd.w>>} ELSE timers
        /\ wsKeys' = IF created THEN wsKeys ELSE Append(wsKeys, w)
        /\ workspaceSockets' = [workspaceSockets EXCEPT ![w] = Put(loc2, s, t.user)]
        /\ redisKeys' = SetKeys(key)
        /\ redisData' = SetData(key, cur2)
        /\ localCache' = r.cache
        /\ microQ' = AwaitMicro(t2, RestMicro)
        /\ ioQ' = AwaitIo(t2, RestIo)
        /\ heap' = Collect([r.heap EXCEPT ![r.obj] = cur2],
                           Refs(localCache', microQ', ioQ'))
  /\ out' = <<>>
  /\ UNCHANGED <<sessions, userOf, rooms, hist, clientVars, chatVars>>

\* handleJoinWorkspace after the reply of set: room join and broadcasts.
\* userData.isReconnection, sent by the client, is read here only.
JoinAfterSet ==
  /\ events' = events
  /\ UNCHANGED extVars
  /\ Ready /\ NextTask.kind = "join" /\ NextTask.pc = "afterSet"
  /\ \E isRec \in BOOLEAN :
     LET t == NextTask
         payload == removeDuplicateUsers(Values(heap[t.obj]))
     IN /\ localCache' = SetReturn(t, WorkspaceKey(t.w), localCache)
        /\ rooms' = rooms \cup {<<t.sid, t.w>>}
        /\ out' = <<Emit("users_connected", t.w, 0, payload, t.sid)>> \o
                  (IF ~isRec \/ ~t.existing
                   THEN <<Emit("user_joined", t.w, 0, <<t.user>>, t.sid)>>
                   ELSE <<>>)
        /\ microQ' = RestMicro
        /\ ioQ' = RestIo
        /\ heap' = Collect(heap, Refs(localCache', microQ', ioQ'))
  /\ UNCHANGED <<sessions, userOf, wsKeys, workspaceSockets, pendingDisconnections, timers,
                 redisKeys, redisData, hist, clientVars, chatVars>>

\* handleLeaveWorkspace up to `await redisService.get(redisKey)`; pd and tm are the
\* pending table and the timers the caller leaves behind.
LeaveStart(s, w, pd, tm, byTimer) ==
  LET created == \E i \in 1..Len(wsKeys) : wsKeys[i] = w
      loc == workspaceSockets[w]
      u == IF created /\ HasKey(loc, s) THEN Lookup(loc, s) ELSE NoUser
      t == GetCall([Task("leave", s, w) EXCEPT !.user = u, !.timer = byTimer],
                   WorkspaceKey(w))
  IN /\ pendingDisconnections' = DropPending(pd, s)
     /\ timers' = IF HasPending(pd, s) THEN tm \ {<<s, PendingOf(pd, s).w>>} ELSE tm
     /\ workspaceSockets' = [workspaceSockets EXCEPT ![w] = Remove(loc, s)]
     /\ microQ' = AwaitMicro(t, microQ)
     /\ ioQ' = AwaitIo(t, ioQ)

leave_workspace(s, w) ==
  /\ CountEvent
  /\ UNCHANGED extVars
  /\ sessions[s] = "connected"
  /\ microQ = <<>>
  /\ NumTasks < MaxTasks
  /\ LeaveStart(s, w, pendingDisconnections, timers, FALSE)
  /\ out' = <<>>
  /\ hist' = [hist EXCEPT !.last[s] = IF @ = [ev |-> "join", w |-> w]
                                      THEN [ev |-> "join_leave", w |-> w]
                                      ELSE [ev |-> "other", w |-> 0],
                           !.swept = "no"]
  /\ UNCHANGED <<sessions, userOf, wsKeys, rooms, redisKeys, redisData, localCache, heap,
                 clientVars, chatVars>>

\* The tail of handleLeaveWorkspace: room leave and, when the user is known,
\* the user_left and users_connected broadcasts.
LeaveFinish(t, obj, h) ==
  /\ rooms' = rooms \ {<<t.sid, t.w>>}
  /\ out' = IF t.user # NoUser
            THEN <<Emit("user_left", t.w, 0, <<t.user>>, t.sid),
                   Emit("users_connected", t.w, 0,
                        removeDuplicateUsers(Values(h[obj])), t.sid)>>
            ELSE <<>>
  /\ hist' = IF t.user # NoUser /\ t.timer
             THEN [hist EXCEPT !.graceLeft[t.sid][t.w] = Inc(@)]
             ELSE hist
  /\ microQ' = RestMicro
  /\ ioQ' = RestIo
  /\ heap' = Collect(h, Refs(localCache', microQ', ioQ'))

\* handleLeaveWorkspace from the reply of get: the session is removed from the
\* shared record and the record written back only if the record holds it.
LeaveAfterGet ==
  /\ events' = events
  /\ UNCHANGED extVars
  /\ Ready /\ NextTask.kind = "leave" /\ NextTask.pc = "afterGet"
  /\ LET t == NextTask
         s == t.sid
         key == WorkspaceKey(t.w)
         r == GetReturn(t, key)
         cur == r.heap[r.obj]
         t2 == [t EXCEPT !.obj = r.obj, !.pc = "afterSet", !.path = SetPath,
                         !.has = FALSE, !.val = <<>>,
                         !.user = IF t.user # NoUser THEN t.user ELSE Lookup(cur, s)]
     IN /\ localCache' = r.cache
        /\ IF HasKey(cur, s)
           THEN /\ redisKeys' = SetKeys(key)
                /\ redisData' = SetData(key, Remove(cur, s))
                /\ microQ' = AwaitMicro(t2, RestMicro)
                /\ ioQ' = AwaitIo(t2, RestIo)
                /\ heap' = Collect([r.heap EXCEPT ![r.obj] = Remove(cur, s)],
                                   Refs(localCache', microQ', ioQ'))
                /\ out' = <<>>
                /\ UNCHANGED <<rooms, hist>>
           ELSE /\ LeaveFinish(t, r.obj, r.heap)
                /\ UNCHANGED <<redisKeys, redisData>>
  /\ UNCHANGED <<sessions, userOf, wsKeys, workspaceSockets, pendingDisconnections, timers,
                 clientVars, chatVars>>

LeaveAfterSet ==
  /\ events' = events
  /\ UNCHANGED extVars
  /\ Ready /\ NextTask.kind = "leave" /\ NextTask.pc = "afterSet"
  /\ localCache' = SetReturn(NextTask, WorkspaceKey(NextTask.w), localCache)
  /\ LeaveFinish(NextTask, NextTask.obj, heap)
  /\ UNCHANGED <<sessions, userOf, wsKeys, workspaceSockets, pendingDisconnections, timers,
                 redisKeys, redisData, clientVars, chatVars>>

\* handleGetWorkspaceUsers.
get_workspace_users(s, w) ==
  /\ CountEvent
  /\ UNCHANGED extVars
  /\ sessions[s] = "connected"
  /\ microQ = <<>>
  /\ NumTasks < MaxTasks
  /\ LET t == GetCall(Task("get", s, w), WorkspaceKey(w))
     IN /\ microQ' = AwaitMicro(t, microQ)
        /\ ioQ' = AwaitIo(t, ioQ)
  /\ out' = <<>>
  /\ hist' = [hist EXCEPT !.last[s] = [ev |-> "other", w |-> 0]]
  /\ UNCHANGED <<sessions, userOf, wsKeys, workspaceSockets, pendingDisconnections,
                 timers, rooms, redisKeys, redisData, localCache, heap, clientVars, chatVars>>

GetUsersAfterGet ==
  /\ events' = events
  /\ UNCHANGED extVars
  /\ Ready /\ NextTask.kind = "get" /\ NextTask.pc = "afterGet"
  /\ LET t == NextTask
         r == GetReturn(t, WorkspaceKey(t.w))
     IN /\ localCache' = r.cache
        /\ out' = <<Emit("users_connected", t.w, t.sid,
                         removeDuplicateUsers(Values(r.heap[r.obj])), t.sid)>>
        /\ microQ' = RestMicro
        /\ ioQ' = RestIo
        /\ heap' = Collect(r.heap, Refs(localCache', microQ', ioQ'))
  /\ UNCHANGED <<sessions, userOf, wsKeys, workspaceSockets, pendingDisconnections, timers, rooms,
                 redisKeys, redisData, hist, clientVars, chatVars>>

\* WorkspaceHandler.handleDisconnect: one grace timer per workspace whose
\* in-process map holds the socket, walked in Object.keys order; every iteration
\* overwrites the single pendingDisconnections entry of the socket.  The
\* disconnect listener then runs ChatHandler.handleDisconnect.
PresentIn(s) ==
  {w \in Workspaces : (\E i \in 1..Len(wsKeys) : wsKeys[i] = w)
                      /\ HasKey(workspaceSockets[w], s)}
LastPresent(s) ==
  CHOOSE w \in PresentIn(s) :
    \A w0 \in PresentIn(s) : IndexOf(wsKeys, w0) <= IndexOf(wsKeys, w)

handleDisconnect(s) ==
  /\ UNCHANGED collectionUsers
  /\ events' = events
  /\ sessions[s] = "connected"
  /\ microQ = <<>>
  /\ sessions' = [sessions EXCEPT ![s] = "disconnected"]
  /\ timers' = timers \cup {<<s, w>> : w \in PresentIn(s)}
  /\ pendingDisconnections' =
       IF PresentIn(s) = {} THEN pendingDisconnections
       ELSE SetPending(pendingDisconnections, s,
                       Lookup(workspaceSockets[LastPresent(s)], s), LastPresent(s))
  /\ rooms' = {x \in rooms : x[1] # s}
  /\ namedRooms' = {x \in namedRooms : x[1] # s}
  /\ typingUsers' = [w \in Workspaces |-> TypingDelete(typingUsers[w], userOf[s])]
  /\ out' = EmitsUpTo(NumWorkspaces, ChatDisconnectGone(s))
  /\ hist' = [hist EXCEPT !.discIn[s] = {w \in PresentIn(s) : <<s, w>> \in rooms},
                           !.calm = IF NumTasks = 0 THEN @ \cup {s} ELSE @,
                           !.stops = CountStops(@, out')]
  /\ LET nd == NoteDisconnect(s)
         ts == nd.tasks \o AgendaGone(s)
     IN /\ NumTasks + Len(ts) <= MaxTasks
        /\ noteUsers' = nd.users
        /\ noteUsersStore' = nd.ustore
        /\ microQ' = AwaitMicroAll(ts, microQ)
        /\ ioQ' = AwaitIoAll(ts, ioQ)
  /\ agendaUsers' = [w \in Workspaces |-> Remove(agendaUsers[w], s)]
  /\ seen' = [seen EXCEPT !.noteIn = {x \in @ : x[1] # s},
                           !.joined = SelectSeq(@, LAMBDA x : x[1] # s)]
  /\ UNCHANGED <<userOf, wsKeys, workspaceSockets, redisKeys, redisData, localCache, heap,
                 noteContents, noteStore, noteCache, authVars, errorCount,
                 workspaceMessages, now, typingSweepAt, clientVars>>

\* The setTimeout callback of handleDisconnect, RECONNECT_GRACE after the
\* disconnect.  Timers set by one disconnect fire in the order they were set.
GraceTimerFire(s, w) ==
  /\ events' = events
  /\ UNCHANGED extVars
  /\ <<s, w>> \in timers
  /\ microQ = <<>>
  /\ \A w0 \in Workspaces :
       <<s, w0>> \in timers => IndexOf(wsKeys, w) <= IndexOf(wsKeys, w0)
  /\ IF HasPending(pendingDisconnections, s)
     THEN /\ NumTasks < MaxTasks
          /\ LeaveStart(s, w, DropPending(pendingDisconnections, s),
                        timers \ {<<s, w>>}, TRUE)
          /\ hist' = [hist EXCEPT !.swept = "no"]
     ELSE /\ timers' = timers \ {<<s, w>>}
          /\ UNCHANGED <<pendingDisconnections, workspaceSockets, microQ, ioQ, hist>>
  /\ out' = <<>>
  /\ UNCHANGED <<sessions, userOf, wsKeys, rooms, redisKeys, redisData, localCache, heap,
                 clientVars, chatVars>>

\* The record in which each email keeps its most recently inserted socket only.
KeepLast(m) ==
  LET last == SelectSeq([i \in 1..Len(m) |-> i],
                        LAMBDA i : \A j \in (i + 1)..Len(m) :
                                     m[j].user.email # m[i].user.email)
  IN [k \in 1..Len(last) |-> m[last[k]]]

\* The loop of cleanupDuplicateUsers over the entries from the i-th on:
\* emailToSocket holds the last socket seen of each email (0: none), and a
\* socket is marked when a later entry carries its email.
RECURSIVE socketsToRemove_Later(_, _, _)
socketsToRemove_Later(m, i, emailToSocket) ==
  IF i > Len(m) THEN {}
  ELSE LET e == m[i].user.email
       IN (IF emailToSocket[e] # 0 THEN {m[i].sid} ELSE {})
          \cup socketsToRemove_Later(m, i + 1,
                                     IF emailToSocket[e] # 0 THEN emailToSocket
                                     ELSE [emailToSocket EXCEPT ![e] = m[i].sid])
RECURSIVE socketsToRemove(_, _, _)
socketsToRemove(m, i, emailToSocket) ==
  IF i > Len(m) THEN {}
  ELSE LET e == m[i].user.email
       IN (IF emailToSocket[e] # 0 THEN {emailToSocket[e]} ELSE {})
          \cup socketsToRemove(m, i + 1, [emailToSocket EXCEPT ![e] = m[i].sid])
\* One pass of cleanupDuplicateUsers over a Map or a record.
Swept(m) ==
  LET gone == socketsToRemove(m, 1, [e \in EmailSet |-> 0])
  IN SelectSeq(m, LAMBDA x : x.sid \notin gone)

\* cleanupDuplicateUsers up to `await redisService.keys(...)`.
cleanupDuplicateUsers ==
  /\ CountEvent
  /\ UNCHANGED extVars
  /\ microQ = <<>>
  /\ NumTasks < MaxTasks
  /\ \A i \in 1..Len(ioQ) : ioQ[i].kind # "sweep"
  /\ workspaceSockets' = [w \in Workspaces |-> Swept(workspaceSockets[w])]
  /\ LET t == [Task("sweep", 0, 0) EXCEPT
                 !.pc = "afterKeys", !.path = SetPath,
                 !.todo = IF SetBlocked THEN {}
                          ELSE {w \in Workspaces : WorkspaceKey(w) \in redisKeys}]
     IN /\ microQ' = AwaitMicro(t, microQ)
        /\ ioQ' = AwaitIo(t, ioQ)
  /\ out' = <<>>
  /\ hist' = [hist EXCEPT !.swept = IF NumTasks = 0 THEN "running" ELSE "no"]
  /\ UNCHANGED <<sessions, userOf, wsKeys, pendingDisconnections, timers, rooms, redisKeys,
                 redisData, localCache, heap, clientVars, chatVars>>

\* The `for (const key of workspaceKeys)` loop head: the next get, or the end.
SweepContinue(t, cache1, h1) ==
  /\ localCache' = cache1
  /\ IF t.todo = {}
     THEN /\ microQ' = RestMicro
          /\ ioQ' = RestIo
          /\ hist' = [hist EXCEPT !.swept = IF @ = "running" THEN "yes" ELSE @]
     ELSE /\ hist' = hist
          /\ \E w \in t.todo :
               LET t2 == GetCallC([t EXCEPT !.w = w, !.todo = @ \ {w},
                                            !.pc = "afterGet", !.obj = 0],
                                  WorkspaceKey(w), cache1)
               IN /\ microQ' = AwaitMicro(t2, RestMicro)
                  /\ ioQ' = AwaitIo(t2, RestIo)
  /\ heap' = Collect(h1, Refs(localCache', microQ', ioQ'))

SweepAfterKeys ==
  /\ events' = events
  /\ UNCHANGED extVars
  /\ Ready /\ NextTask.kind = "sweep" /\ NextTask.pc = "afterKeys"
  /\ SweepContinue(NextTask, localCache, heap)
  /\ out' = <<>>
  /\ UNCHANGED <<sessions, userOf, wsKeys, workspaceSockets, pendingDisconnections, timers,
                 rooms, redisKeys, redisData, clientVars, chatVars>>

SweepAfterGet ==
  /\ events' = events
  /\ UNCHANGED extVars
  /\ Ready /\ NextTask.kind = "sweep" /\ NextTask.pc = "afterGet"
  /\ LET t == NextTask
         key == WorkspaceKey(t.w)
         r == GetReturn(t, key)
         cur == r.heap[r.obj]
         t2 == [t EXCEPT !.obj = r.obj, !.pc = "afterSet", !.path = SetPath,
                         !.has = FALSE, !.val = <<>>]
     IN IF Swept(cur) # cur
        THEN /\ redisKeys' = SetKeys(key)
             /\ redisData' = SetData(key, Swept(cur))
             /\ localCache' = r.cache
             /\ microQ' = AwaitMicro(t2, RestMicro)
             /\ ioQ' = AwaitIo(t2, RestIo)
             /\ heap' = Collect([r.heap EXCEPT ![r.obj] = Swept(cur)],
                                Refs(localCache', microQ', ioQ'))
             /\ hist' = hist
        ELSE /\ SweepContinue(t, r.cache, r.heap)
             /\ UNCHANGED <<redisKeys, redisData>>
  /\ out' = <<>>
  /\ UNCHANGED <<sessions, userOf, wsKeys, workspaceSockets, pendingDisconnections, timers,
                 rooms, clientVars, chatVars>>

SweepAfterSet ==
  /\ events' = events
  /\ UNCHANGED extVars
  /\ Ready /\ NextTask.kind = "sweep" /\ NextTask.pc = "afterSet"
  /\ SweepContinue(NextTask, SetReturn(NextTask, WorkspaceKey(NextTask.w), localCache),
                   heap)
  /\ out' = <<>>
  /\ UNCHANGED <<sessions, userOf, wsKeys, workspaceSockets, pendingDisconnections, timers,
                 rooms, redisKeys, redisData, clientVars, chatVars>>

\* A cache entry outlives cacheTTL: get no longer returns it and _cleanupCache
\* deletes it.
CacheExpire(k) ==
  /\ CountEvent
  /\ UNCHANGED extVars
  /\ localCache[k] # 0
  /\ microQ = <<>>
  /\ localCache' = [localCache EXCEPT ![k] = 0]
  /\ heap' = Collect(heap, Refs(localCache', microQ, ioQ))
  /\ out' = <<>>
  /\ UNCHANGED <<sessions, userOf, wsKeys, workspaceSockets, pendingDisconnections, timers, rooms,
                 redisKeys, redisData, microQ, ioQ, hist, clientVars, chatVars>>

\* Another server instance that shares the store and runs the earlier workspace
\* handler: it adds its session to the shared record without evicting anything.
PeerJoin(p, w) ==
  /\ CountEvent
  /\ UNCHANGED extVars
  /\ microQ = <<>>
  /\ redisKeys' = redisKeys \cup {WorkspaceKey(w)}
  /\ redisData' = [redisData EXCEPT ![WorkspaceKey(w)] = Put(@, p, PeerUser(p))]
  /\ out' = <<>>
  /\ UNCHANGED <<sessions, userOf, wsKeys, workspaceSockets, pendingDisconnections, timers, rooms,
                 localCache, heap, microQ, ioQ, hist, clientVars, chatVars>>

PeerLeave(p, w) ==
  /\ CountEvent
  /\ UNCHANGED extVars
  /\ microQ = <<>>
  /\ HasKey(redisData[WorkspaceKey(w)], p)
  /\ redisData' = [redisData EXCEPT ![WorkspaceKey(w)] = Remove(@, p)]
  /\ out' = <<>>
  /\ UNCHANGED <<sessions, userOf, wsKeys, workspaceSockets, pendingDisconnections, timers, rooms,
                 redisKeys, localCache, heap, microQ, ioQ, hist, clientVars, chatVars>>

\* ------------------------------------------------------------------- chat
\* handleNewMessage up to `await redisService.get(redisKey)`: validation, the
\* message, the local history cut to MESSAGE_LIMIT.
LastN(seq, n) == IF Len(seq) > n THEN SubSeq(seq, Len(seq) - n + 1, Len(seq)) ELSE seq

new_message(s, w, senderEmail, content) ==
  /\ CountEvent
  /\ UNCHANGED extRest
  /\ seen' = IF w = NoWorkspace \/ content = "" \/ senderEmail = ""
             THEN [seen EXCEPT !.malformed = Malformed("new_message", s, events')]
             ELSE seen
  /\ sessions[s] = "connected"
  /\ microQ = <<>>
  /\ NumTasks < MaxTasks
  /\ IF w = NoWorkspace \/ content = "" \/ senderEmail = ""
     THEN /\ out' = <<Emit("error", w, s, <<>>, s)>>
          /\ UNCHANGED <<workspaceMessages, microQ, ioQ, hist>>
     ELSE LET m == [id |-> now, email |-> senderEmail, content |-> content]
              t == GetCall([Task("msg", s, w) EXCEPT !.user = UserData(s), !.msg = m],
                           ChatKey(w))
          IN /\ workspaceMessages' =
                  [workspaceMessages EXCEPT ![w] = LastN(Append(@, m), MESSAGE_LIMIT)]
             /\ microQ' = AwaitMicro(t, microQ)
             /\ ioQ' = AwaitIo(t, ioQ)
             /\ out' = <<>>
             /\ hist' = [hist EXCEPT !.stops[w][senderEmail] = -1,
                                      !.typingEvent[w][senderEmail] = 0]
  /\ UNCHANGED <<sessions, userOf, wsKeys, workspaceSockets, pendingDisconnections, timers,
                 rooms, redisKeys, redisData, localCache, heap, typingUsers, now,
                 typingSweepAt, clientVars>>

\* handleNewMessage from the reply of get to `await redisService.set(...)`.
MsgAfterGet ==
  /\ Ready /\ NextTask.kind = "msg" /\ NextTask.pc = "afterGet"
  /\ events' = events
  /\ UNCHANGED extVars
  /\ LET t == NextTask
         key == ChatKey(t.w)
         r == GetReturn(t, key)
         redisMessages == LastN(Append(r.heap[r.obj], t.msg), MESSAGE_LIMIT)
         t2 == [t EXCEPT !.obj = r.obj, !.pc = "afterSet", !.path = SetPath,
                         !.has = FALSE, !.val = <<>>]
     IN /\ redisKeys' = SetKeys(key)
        /\ redisData' = SetData(key, redisMessages)
        /\ localCache' = r.cache
        /\ microQ' = AwaitMicro(t2, RestMicro)
        /\ ioQ' = AwaitIo(t2, RestIo)
        /\ heap' = Collect([r.heap EXCEPT ![r.obj] = redisMessages],
                           Refs(localCache', microQ', ioQ'))
  /\ out' = <<>>
  /\ UNCHANGED <<sessions, userOf, wsKeys, workspaceSockets, pendingDisconnections, timers,
                 rooms, hist, clientVars, chatVars>>

\* handleUserStopTyping up to its `await redisService.get(...)`, as the task t
\* goes on: the local entry is deleted at once.
StopTypingStart(t, w, e, cache, mq, iq) ==
  LET t2 == GetCallC([t EXCEPT !.kind = "stop", !.pc = "afterGet", !.obj = 0],
                     TypingKey(w), cache)
  IN /\ typingUsers' = [typingUsers EXCEPT ![w] = TypingDelete(@, e)]
     /\ microQ' = AwaitMicro(t2, mq)
     /\ ioQ' = AwaitIo(t2, iq)

\* handleNewMessage after the reply of set: the broadcast, then the call of
\* handleUserStopTyping for the sender.
MsgAfterSet ==
  /\ Ready /\ NextTask.kind = "msg" /\ NextTask.pc = "afterSet"
  /\ events' = events
  /\ UNCHANGED extVars
  /\ LET t == NextTask IN
     /\ localCache' = SetReturn(t, ChatKey(t.w), localCache)
     /\ out' = <<Emit("new_message", t.w, 0, <<t.user>>, t.sid)>>
     /\ StopTypingStart(t, t.w, t.user.email, localCache', RestMicro, RestIo)
     /\ heap' = Collect(heap, Refs(localCache', microQ', ioQ'))
  /\ UNCHANGED <<sessions, userOf, wsKeys, workspaceSockets, pendingDisconnections, timers,
                 rooms, redisKeys, redisData, workspaceMessages, now, typingSweepAt, hist,
                 clientVars>>

\* handleUserTyping up to `await redisService.get(...)`.
user_typing(s, w, email) ==
  /\ CountEvent
  /\ UNCHANGED extRest
  /\ seen' = IF w = NoWorkspace \/ email = ""
             THEN [seen EXCEPT !.malformed = Malformed("user_typing", s, events')]
             ELSE seen
  /\ sessions[s] = "connected"
  /\ microQ = <<>>
  /\ NumTasks < MaxTasks
  /\ IF w = NoWorkspace \/ email = ""
     THEN UNCHANGED <<typingUsers, microQ, ioQ, hist>>
     ELSE /\ typingUsers' = [typingUsers EXCEPT ![w] = TypingSet(@, email, now)]
          /\ LET t == GetCall([Task("typing", s, w) EXCEPT !.user = UserData(s),
                                                             !.seq = events'],
                              TypingKey(w))
             IN /\ microQ' = AwaitMicro(t, microQ)
                /\ ioQ' = AwaitIo(t, ioQ)
          /\ hist' = [hist EXCEPT !.stops[w][email] = -1,
                                   !.typingEvent[w][email] = events']
  /\ out' = <<>>
  /\ UNCHANGED <<sessions, userOf, wsKeys, workspaceSockets, pendingDisconnections, timers,
                 rooms, redisKeys, redisData, localCache, heap, workspaceMessages, now,
                 typingSweepAt, clientVars>>

\* handleUserTyping / handleUserStopTyping from the reply of get to
\* `await redisService.set(redisKey, redisTypingUsers, 10)`.
TypingAfterGet ==
  /\ Ready /\ NextTask.kind \in {"typing", "stop"} /\ NextTask.pc = "afterGet"
  /\ events' = events
  /\ UNCHANGED extVars
  /\ LET t == NextTask
         key == TypingKey(t.w)
         r == GetReturn(t, key)
         rec == IF t.kind = "typing" THEN TypingSet(r.heap[r.obj], t.user.email, now)
                ELSE TypingDelete(r.heap[r.obj], t.user.email)
         t2 == [t EXCEPT !.obj = r.obj, !.pc = "afterSet", !.path = SetPath,
                         !.has = FALSE, !.val = <<>>]
     IN /\ redisKeys' = SetKeys(key)
        /\ redisData' = SetData(key, rec)
        /\ localCache' = r.cache
        /\ microQ' = AwaitMicro(t2, RestMicro)
        /\ ioQ' = AwaitIo(t2, RestIo)
        /\ heap' = Collect([r.heap EXCEPT ![r.obj] = rec],
                           Refs(localCache', microQ', ioQ'))
  /\ out' = <<>>
  /\ UNCHANGED <<sessions, userOf, wsKeys, workspaceSockets, pendingDisconnections, timers,
                 rooms, hist, clientVars, chatVars>>

\* After the reply of set: the user_typing or user_stop_typing broadcast.
TypingAfterSet ==
  /\ Ready /\ NextTask.kind \in {"typing", "stop"} /\ NextTask.pc = "afterSet"
  /\ events' = events
  /\ UNCHANGED extVars
  /\ LET t == NextTask IN
     /\ localCache' = SetReturn(t, TypingKey(t.w), localCache)
     /\ out' = <<Emit(IF t.kind = "typing" THEN "user_typing" ELSE "user_stop_typing",
                      t.w, 0, <<[email |-> t.user.email, snap |-> 0]>>, t.sid)>>
     /\ microQ' = RestMicro
     /\ ioQ' = RestIo
     /\ heap' = Collect(heap, Refs(localCache', microQ', ioQ'))
     /\ hist' = IF t.kind = "typing"
                THEN IF /\ hist.typingEvent[t.w][t.user.email] = t.seq
                        /\ TypingHas(typingUsers[t.w], t.user.email)
                     THEN [hist EXCEPT !.stops[t.w][t.user.email] = 0]
                     ELSE hist
                ELSE [hist EXCEPT !.stops = CountStops(@, out')]
  /\ UNCHANGED <<sessions, userOf, wsKeys, workspaceSockets, pendingDisconnections, timers,
                 rooms, redisKeys, redisData, clientVars, chatVars>>

\* handleUserStopTyping up to `await redisService.get(...)`.
user_stop_typing(s, w, email) ==
  /\ CountEvent
  /\ UNCHANGED extRest
  /\ seen' = IF w = NoWorkspace \/ email = ""
             THEN [seen EXCEPT !.malformed = Malformed("user_stop_typing", s, events')]
             ELSE seen
  /\ sessions[s] = "connected"
  /\ microQ = <<>>
  /\ NumTasks < MaxTasks
  /\ IF w = NoWorkspace \/ email = ""
     THEN UNCHANGED <<typingUsers, microQ, ioQ, hist>>
     ELSE /\ StopTypingStart([Task("stop", s, w) EXCEPT !.user = UserData(s)], w, email,
                             localCache, microQ, ioQ)
          /\ hist' = [hist EXCEPT !.stops[w][email] = -1,
                                   !.typingEvent[w][email] = 0]
  /\ out' = <<>>
  /\ UNCHANGED <<sessions, userOf, wsKeys, workspaceSockets, pendingDisconnections, timers,
                 rooms, redisKeys, redisData, localCache, heap, workspaceMessages, now,
                 typingSweepAt, clientVars>>

\* The interval callback of _startTypingCleanup: entries older than
\* TYPING_TIMEOUT are deleted and user_stop_typing is broadcast for each.
TypingCleanup ==
  /\ now = typingSweepAt
  /\ microQ = <<>>
  /\ events' = events
  /\ UNCHANGED extVars
  /\ LET gone == [w \in Workspaces |->
                    SelectSeq(typingUsers[w],
                              LAMBDA x : now - x.timestamp > TYPING_TIMEOUT)]
     IN /\ typingUsers' = [w \in Workspaces |->
                             SelectSeq(typingUsers[w],
                                       LAMBDA x : ~(now - x.timestamp > TYPING_TIMEOUT))]
        /\ out' = EmitsUpTo(NumWorkspaces, gone)
        /\ hist' = [hist EXCEPT !.stops = CountStops(@, out')]
  /\ typingSweepAt' = typingSweepAt + TYPING_TIMEOUT
  /\ UNCHANGED <<sessions, userOf, wsKeys, workspaceSockets, pendingDisconnections, timers,
                 rooms, redisKeys, redisData, localCache, heap, microQ, ioQ,
                 workspaceMessages, now, clientVars>>

\* Half a sweep interval passes; a sweep that is due runs first.
ChatTick ==
  /\ now < typingSweepAt
  /\ now < MaxTicks * HalfInterval
  /\ microQ = <<>>
  /\ now' = now + HalfInterval
  /\ out' = <<>>
  /\ UNCHANGED <<extVars, sessions, userOf, wsKeys, workspaceSockets, pendingDisconnections, timers,
                 rooms, redisKeys, redisData, localCache, heap, microQ, ioQ, events, hist,
                 workspaceMessages, typingUsers, typingSweepAt, clientVars>>

\* ------------------------------------------- shared-state client: breaker
maxReconnectAttempts == 10
reconnectDelay == 1000
failureThreshold == 5
resetTimeout == 30000
\* _handleReconnect at the last attempt: breaker held for one minute, next
\* attempt in five minutes.
exhaustedResetTimeout == 60000
exhaustedRetryDelay == 300000

\* The fields of the client that its private methods update.
ClientState ==
  [isConnected |-> isConnected, circuitOpen |-> circuitOpen,
   circuitResetTime |-> circuitResetTime, failureCount |-> failureCount,
   reconnectAttempts |-> reconnectAttempts, reconnectTimers |-> reconnectTimers]

SetClientState(c) ==
  /\ isConnected' = c.isConnected
  /\ circuitOpen' = c.circuitOpen
  /\ circuitResetTime' = c.circuitResetTime
  /\ failureCount' = c.failureCount
  /\ reconnectAttempts' = c.reconnectAttempts
  /\ reconnectTimers' = c.reconnectTimers

\* Two counts for one failure.
handleFailure_Twice(c) ==
  [c EXCEPT !.failureCount = @ + 2,
            !.circuitOpen = @ \/ c.failureCount + 2 >= failureThreshold,
            !.circuitResetTime = IF c.failureCount + 2 >= failureThreshold THEN resetTimeout
                                 ELSE @]
\* RedisService._handleFailure.  The counter is only compared with the
\* threshold, so it is kept at the threshold once it has reached it.
handleFailure(c) ==
  LET n == IF c.failureCount < failureThreshold THEN c.failureCount + 1
           ELSE c.failureCount
  IN IF n >= failureThreshold
     THEN [c EXCEPT !.failureCount = n, !.circuitOpen = TRUE,
                    !.circuitResetTime = resetTimeout]
     ELSE [c EXCEPT !.failureCount = n]

\* reconnectDelay * 1.5^(attempt - 1), in whole ms.
RECURSIVE BaseDelay(_)
BaseDelay(n) == IF n <= 1 THEN reconnectDelay ELSE (BaseDelay(n - 1) * 3) \div 2
\* Math.random() * 0.3 * baseDelay: the two ends of the range.
Jitter(base, high) == IF high THEN (3 * base) \div 10 - 1 ELSE 0

\* The pending timers that _handleReconnect set when the attempts were used up.
LongTimers(ts) == SelectSeq(ts, LAMBDA t : t.kind = "long")

\* The breaker stays as it is when the attempts are used up.
handleReconnect_NoBreaker(c, high) ==
  IF c.reconnectAttempts < maxReconnectAttempts
  THEN LET n == c.reconnectAttempts + 1 IN
       [c EXCEPT !.reconnectAttempts = n,
                 !.reconnectTimers =
                    Append(@, [kind |-> "reconnect",
                               left |-> BaseDelay(n) + Jitter(BaseDelay(n), high)])]
  ELSE [c EXCEPT !.reconnectTimers = Append(@, [kind |-> "long",
                                                left |-> exhaustedRetryDelay])]
\* RedisService._handleReconnect: every call sets a timer of its own.
handleReconnect(c, high) ==
  IF c.reconnectAttempts < maxReconnectAttempts
  THEN LET n == c.reconnectAttempts + 1 IN
       [c EXCEPT !.reconnectAttempts = n,
                 !.reconnectTimers =
                    Append(@, [kind |-> "reconnect",
                               left |-> BaseDelay(n) + Jitter(BaseDelay(n), high)])]
  ELSE [c EXCEPT !.circuitOpen = TRUE, !.circuitResetTime = exhaustedResetTimeout,
                 !.reconnectTimers = Append(@, [kind |-> "long",
                                                left |-> exhaustedRetryDelay])]

\* RedisService._checkCircuitBreaker: [ok, c].
checkCircuitBreaker(c) ==
  IF c.circuitOpen
  THEN IF c.circuitResetTime < 0
       THEN [ok |-> TRUE, c |-> [c EXCEPT !.circuitOpen = FALSE, !.failureCount = 0]]
       ELSE [ok |-> FALSE, c |-> c]
  ELSE [ok |-> TRUE, c |-> c]

\* `!this.isConnected || !this._checkCircuitBreaker()`: [ok, c].
Admit(c) == IF ~c.isConnected THEN [ok |-> FALSE, c |-> c] ELSE checkCircuitBreaker(c)

\* History of one run of initialize(): the timer that called it, whether a
\* connection was attempted and whether the attempt failed.
Initialized(kind, attempted, failed) ==
  [op |-> "initialize", open |-> ~attempted, sent |-> attempted, failed |-> failed,
   result |-> kind]

\* The breaker is open and its reset instant has not passed.
BreakerHolds == circuitOpen /\ circuitResetTime >= 0

\* History: the failures counted since the last success of a connect or of a
\* command and since the breaker was last closed, up to the threshold.
Streak(base, failures) ==
  IF base + failures < failureThreshold THEN base + failures ELSE failureThreshold
\* History of one public operation: the call, and the streak after it.
Called(call) ==
  LET base == IF circuitOpen /\ ~circuitOpen' THEN 0 ELSE hist.streak
  IN [hist EXCEPT !.call = call,
                  !.streak = IF ~call.sent THEN base
                             ELSE IF store = "up" THEN 0 ELSE Streak(base, 1)]

\* RedisService.initialize, run at startup and by the timers of _handleReconnect.
\* A connect to a store that is not down succeeds and `ready` fires; one to a
\* store that is down rejects: the `error` and the `end` listener of the new
\* connection have each run or not, then the catch block runs.  ends says
\* whether the connection may raise `end` for a connect that fails.
initialize(ends) ==
  /\ microQ = <<>>
  /\ \E i \in 1..Len(reconnectTimers) :
       /\ reconnectTimers[i].left = 0
       /\ LET kind == reconnectTimers[i].kind
              c0 == [ClientState EXCEPT
                       !.reconnectTimers = Splice(@, i),
                       !.reconnectAttempts = IF kind = "long" THEN 0 ELSE @]
          IN IF c0.circuitOpen /\ c0.circuitResetTime > 0
             THEN /\ SetClientState(c0) /\ client' = client
                  /\ hist' = [hist EXCEPT !.call = Initialized(kind, FALSE, FALSE)]
             ELSE LET c1 == [c0 EXCEPT !.circuitOpen = FALSE,
                                       !.failureCount = IF c0.circuitOpen THEN 0 ELSE @]
                      base == IF c0.circuitOpen THEN 0 ELSE hist.streak
                  IN /\ client' = TRUE
                     /\ IF store # "down"
                        THEN /\ SetClientState([c1 EXCEPT !.isConnected = TRUE,
                                                          !.reconnectAttempts = 0,
                                                          !.failureCount = 0,
                                                          !.circuitOpen = FALSE])
                             /\ hist' = [hist EXCEPT !.call = Initialized(kind, TRUE, FALSE),
                                                      !.streak = 0]
                        ELSE \E errorEvent, high, highEnd \in BOOLEAN, endEvent \in ends :
                               LET c2 == IF errorEvent
                                         THEN handleFailure([c1 EXCEPT !.isConnected = FALSE])
                                         ELSE c1
                                   c3 == IF endEvent
                                         THEN handleReconnect([c2 EXCEPT !.isConnected = FALSE],
                                                              highEnd)
                                         ELSE c2
                               IN /\ endEvent => Len(c0.reconnectTimers) + 2 <= MaxReconnectTimers
                                  /\ highEnd => endEvent
                                  /\ SetClientState(handleReconnect(handleFailure(c3), high))
                                  /\ hist' = [hist EXCEPT
                                                !.call = Initialized(kind, TRUE, TRUE),
                                                !.streak = Streak(base, IF errorEvent THEN 2
                                                                        ELSE 1)]
  /\ out' = <<>>
  /\ UNCHANGED <<extVars, sessions, userOf, wsKeys, workspaceSockets, pendingDisconnections, timers,
                 rooms, redisKeys, redisData, localCache, cacheEnabled, heap, microQ, ioQ,
                 events, store, chatVars>>

\* The store changes its state.  A live connection to a store that goes down is
\* lost: the `error` listener runs, then the `end` listener.
StoreChange(m) ==
  /\ m # store
  /\ microQ = <<>>
  /\ store' = m
  /\ IF m = "down" /\ isConnected
     THEN /\ \E high \in BOOLEAN :
               SetClientState(handleReconnect(
                 handleFailure([ClientState EXCEPT !.isConnected = FALSE]), high))
          /\ hist' = [hist EXCEPT !.call = NoCall, !.streak = Streak(@, 1)]
     ELSE /\ SetClientState(ClientState)
          /\ hist' = [hist EXCEPT !.call = NoCall]
  /\ out' = <<>>
  /\ UNCHANGED <<extVars, sessions, userOf, wsKeys, workspaceSockets, pendingDisconnections, timers,
                 rooms, redisKeys, redisData, localCache, cacheEnabled, heap, microQ, ioQ,
                 events, client, chatVars>>

\* Time passes: to the deadline of the pending timer, to the reset instant of the
\* breaker, or just past it.
Advance(d) ==
  /\ d > 0
  /\ microQ = <<>>
  /\ \A i \in 1..Len(reconnectTimers) : d <= reconnectTimers[i].left
  /\ reconnectTimers' = [i \in 1..Len(reconnectTimers) |->
                           [reconnectTimers[i] EXCEPT !.left = @ - d]]
  /\ circuitResetTime' = IF circuitResetTime - d < 0 THEN -1 ELSE circuitResetTime - d
  /\ hist' = [hist EXCEPT !.call = NoCall]
  /\ out' = <<>>
  /\ UNCHANGED <<extVars, sessions, userOf, wsKeys, workspaceSockets, pendingDisconnections, timers,
                 rooms, redisKeys, redisData, localCache, cacheEnabled, isConnected,
                 circuitOpen, failureCount, reconnectAttempts, client, store, heap, microQ,
                 ioQ, events, chatVars>>

\* The keys and the values of the callers of get and set.
ClientKeys == {WorkspaceKey(w) : w \in FleetWorkspaces}
SetValues == {<<[sid |-> p, user |-> PeerUser(p)]>> : p \in PeerSessions}

\* RedisService.get from call to result, with no other step in between.
get(key) ==
  /\ microQ = <<>> /\ ioQ = <<>>
  /\ IF cacheEnabled /\ localCache[key] # 0
     THEN /\ UNCHANGED <<localCache, heap, clientVars, chatVars>>
          /\ hist' = Called([op |-> "get", open |-> BreakerHolds,
                             sent |-> FALSE, failed |-> FALSE, result |-> "value"])
     ELSE LET a == Admit(ClientState) IN
          IF ~a.ok
          THEN /\ SetClientState(a.c)
               /\ hist' = Called([op |-> "get", open |-> BreakerHolds,
                                  sent |-> FALSE, failed |-> TRUE, result |-> "null"])
               /\ UNCHANGED <<localCache, heap, cacheEnabled, client, store>>
          ELSE IF store = "up"
          THEN LET o == NewObj(localCache, microQ, ioQ, Task("get", 0, 0)) IN
               /\ SetClientState(a.c)
               /\ IF key \in redisKeys /\ cacheEnabled
                  THEN /\ localCache' = [localCache EXCEPT ![key] = o]
                       /\ heap' = [heap EXCEPT ![o] = redisData[key]]
                  ELSE UNCHANGED <<localCache, heap>>
               /\ hist' = Called([op |-> "get", open |-> BreakerHolds,
                                  sent |-> TRUE,
                                  failed |-> key \notin redisKeys,
                                  result |-> IF key \in redisKeys THEN "value"
                                  ELSE "null"])
               /\ UNCHANGED <<cacheEnabled, client, store>>
          ELSE /\ SetClientState(handleFailure(a.c))
               /\ hist' = Called([op |-> "get", open |-> BreakerHolds,
                                  sent |-> TRUE, failed |-> TRUE, result |-> "null"])
               /\ UNCHANGED <<localCache, heap, cacheEnabled, client, store>>
  /\ out' = <<>>
  /\ UNCHANGED <<extVars, sessions, userOf, wsKeys, workspaceSockets, pendingDisconnections, timers,
                 rooms, redisKeys, redisData, microQ, ioQ, events, chatVars>>

\* RedisService.set from call to result, with no other step in between.
set(key, value) ==
  /\ microQ = <<>> /\ ioQ = <<>>
  /\ LET a == Admit(ClientState) IN
     IF ~a.ok
     THEN /\ SetClientState(a.c)
          /\ hist' = Called([op |-> "set", open |-> BreakerHolds,
                             sent |-> FALSE, failed |-> TRUE, result |-> "false"])
          /\ UNCHANGED <<redisKeys, redisData, localCache, heap>>
     ELSE IF store = "up"
     THEN LET o == NewObj(localCache, microQ, ioQ, Task("set", 0, 0)) IN
          /\ SetClientState(a.c)
          /\ redisKeys' = redisKeys \cup {key}
          /\ redisData' = [redisData EXCEPT ![key] = value]
          /\ localCache' = IF cacheEnabled THEN [localCache EXCEPT ![key] = o]
                           ELSE localCache
          /\ heap' = Collect([heap EXCEPT ![o] = value], Refs(localCache', microQ, ioQ))
          /\ hist' = Called([op |-> "set", open |-> BreakerHolds,
                             sent |-> TRUE, failed |-> FALSE, result |-> "true"])
     ELSE /\ SetClientState(handleFailure(a.c))
          /\ hist' = Called([op |-> "set", open |-> BreakerHolds,
                             sent |-> TRUE, failed |-> TRUE, result |-> "false"])
          /\ UNCHANGED <<redisKeys, redisData, localCache, heap>>
  /\ out' = <<>>
  /\ UNCHANGED <<extVars, sessions, userOf, wsKeys, workspaceSockets, pendingDisconnections, timers,
                 rooms, cacheEnabled, client, store, microQ, ioQ, events, chatVars>>

\* RedisService.healthCheck: a PING when the client is connected and the breaker
\* closed; a failed PING counts as a failure.
healthStatus ==
  IF ~isConnected \/ circuitOpen THEN "unhealthy"
  ELSE IF store = "up" THEN "healthy" ELSE "unhealthy"

healthCheck ==
  /\ microQ = <<>> /\ ioQ = <<>>
  /\ IF ~isConnected \/ circuitOpen
     THEN /\ SetClientState(ClientState)
          /\ hist' = Called([op |-> "healthCheck", open |-> BreakerHolds,
                             sent |-> FALSE, failed |-> TRUE, result |-> "unhealthy"])
     ELSE /\ SetClientState(IF store = "up" THEN ClientState
                            ELSE handleFailure(ClientState))
          /\ hist' = Called([op |-> "healthCheck", open |-> FALSE,
                             sent |-> TRUE, failed |-> store # "up",
                             result |-> healthStatus])
  /\ out' = <<Emit(healthStatus, 0, 0, <<>>, 0)>>
  /\ UNCHANGED <<extVars, sessions, userOf, wsKeys, workspaceSockets, pendingDisconnections, timers,
                 rooms, redisKeys, redisData, localCache, cacheEnabled, client, store, heap,
                 microQ, ioQ, events, chatVars>>

\* The other public operations and what each returns when it is blocked or
\* fails, and when it succeeds.
OtherOps == {"delete", "publish", "subscribe", "mget", "mset", "increment", "expire", "keys"}
Refused(op) ==
  CASE op \in {"delete", "publish", "subscribe", "mset", "expire"} -> "false"
    [] op = "mget" -> "nulls"
    [] op = "increment" -> "null"
    [] op = "keys" -> "empty"
Done(op) ==
  CASE op \in {"delete", "publish", "subscribe", "mset", "expire"} -> "true"
    [] op = "mget" -> "values"
    [] op = "increment" -> "number"
    [] op = "keys" -> "list"

\* RedisService.delete, publish, subscribe, mget, mset, increment, expire and
\* keys from call to result.  delete drops the cache entry before anything
\* else; mget serves and fills the cache like get; mset writes like set.
\* Counters, expiry times and channels are not part of the modelled store.
operation(op, key, value) ==
  /\ microQ = <<>> /\ ioQ = <<>>
  /\ LET a == Admit(ClientState)
         cache0 == IF op = "delete" /\ cacheEnabled THEN [localCache EXCEPT ![key] = 0]
                   ELSE localCache
         o == NewObj(cache0, microQ, ioQ, Task("set", 0, 0))
         \* mget sends no command for a key it finds in the cache
         needIo == op # "mget" \/ ~cacheEnabled \/ localCache[key] = 0
     IN IF ~a.ok
        THEN /\ SetClientState(a.c)
             /\ hist' = Called([op |-> op, open |-> BreakerHolds,
                                sent |-> FALSE, failed |-> TRUE,
                                result |-> Refused(op)])
             /\ localCache' = cache0
             /\ heap' = Collect(heap, Refs(cache0, microQ, ioQ))
             /\ UNCHANGED <<redisKeys, redisData>>
        ELSE IF store = "up" \/ ~needIo
        THEN /\ SetClientState(a.c)
             /\ hist' = Called([op |-> op, open |-> BreakerHolds,
                                sent |-> needIo,
                                failed |-> FALSE, result |-> Done(op)])
             /\ redisKeys' = CASE op = "delete" -> redisKeys \ {key}
                                [] op = "mset" -> redisKeys \cup {key}
                                [] OTHER -> redisKeys
             /\ redisData' = CASE op = "delete" -> [redisData EXCEPT ![key] = <<>>]
                                [] op = "mset" -> [redisData EXCEPT ![key] = value]
                                [] OTHER -> redisData
             /\ localCache' =
                  IF cacheEnabled /\ (op = "mset" \/ (op = "mget" /\ localCache[key] = 0
                                                       /\ key \in redisKeys))
                  THEN [cache0 EXCEPT ![key] = o] ELSE cache0
             /\ heap' = Collect([heap EXCEPT ![o] = IF op = "mset" THEN value
                                                    ELSE redisData[key]],
                                Refs(localCache', microQ, ioQ))
        ELSE /\ SetClientState(handleFailure(a.c))
             /\ hist' = Called([op |-> op, open |-> BreakerHolds,
                                sent |-> TRUE, failed |-> TRUE,
                                result |-> Refused(op)])
             /\ localCache' = IF op = "mset" /\ cacheEnabled THEN [cache0 EXCEPT ![key] = o]
                              ELSE cache0
             /\ heap' = Collect([heap EXCEPT ![o] = value], Refs(localCache', microQ, ioQ))
             /\ UNCHANGED <<redisKeys, redisData>>
  /\ out' = <<>>
  /\ UNCHANGED <<extVars, sessions, userOf, wsKeys, workspaceSockets, pendingDisconnections, timers,
                 rooms, cacheEnabled, client, store, microQ, ioQ, events, chatVars>>

\* CollectionHandler.handleGetCollectionsUsers: KEYS goes to the connection of
\* the client itself, not through RedisService.keys.  No collection key is in
\* the store, so the loop over the keys found has nothing to do.
get_collections_users(s, w) ==
  /\ sessions[s] = "connected"
  /\ microQ = <<>> /\ ioQ = <<>>
  /\ hist' = [hist EXCEPT !.call = [op |-> "client.keys", open |-> BreakerHolds,
                                    sent |-> client /\ isConnected,
                                    failed |-> ~(client /\ isConnected /\ store = "up"),
                                    result |-> IF client /\ isConnected /\ store = "up"
                                               THEN "list" ELSE "raised"]]
  /\ out' = IF client /\ isConnected /\ store = "up" THEN <<>>
            ELSE <<Emit("error", w, s, <<>>, s)>>
  /\ UNCHANGED <<extVars, sessions, userOf, wsKeys, workspaceSockets, pendingDisconnections, timers,
                 rooms, redisKeys, redisData, localCache, heap, microQ, ioQ, events,
                 clientVars, chatVars>>

\* ------------------------------------------- collections (CollectionHandler)
\* Array.from(new Map(users.map(u => [u.email, u])).values()): one user per
\* email, at the place of the first and with the value of the last.
uniqueUsers(users) ==
  LET first == SelectSeq([i \in 1..Len(users) |-> i],
                         LAMBDA i : \A j \in 1..(i - 1) : users[j].email # users[i].email)
      last(e) == CHOOSE i \in 1..Len(users) :
                   /\ users[i].email = e
                   /\ \A j \in (i + 1)..Len(users) : users[j].email # e
  IN [k \in 1..Len(first) |-> users[last(users[first[k]].email)]]

collUnchanged ==
  UNCHANGED <<sessions, userOf, wsKeys, workspaceSockets, pendingDisconnections, timers, rooms,
              clientVars, chatVars, noteVars, agendaUsers, authVars, seen, hist, events>>

\* RedisService.delete up to its await: the cache entry goes first, then DEL
\* is sent unless the call is blocked.
DeleteCache(key, cache) == IF cacheEnabled THEN [cache EXCEPT ![key] = 0] ELSE cache
DeleteKeys(key) == IF SetBlocked THEN redisKeys ELSE redisKeys \ {key}
DeleteData(key) == IF SetBlocked THEN redisData ELSE [redisData EXCEPT ![key] = <<>>]

\* handleJoinCollection up to `await redisService.get(redisKey)`: the Maps are
\* created, and a session whose email is in the Map already is left out.
join_collection(s, w) ==
  /\ CountEvent
  /\ sessions[s] = "connected"
  /\ microQ = <<>>
  /\ NumTasks < MaxTasks
  /\ LET m == collectionUsers[w].map
         existingUserData == \E i \in 1..Len(m) : m[i].user.email = userOf[s]
         t == GetCall([Task("cjoin", s, w) EXCEPT !.user = UserData(s)], CollectionKey(w))
     IN IF existingUserData
        THEN /\ collectionUsers' = [collectionUsers EXCEPT ![w].has = TRUE]
             /\ UNCHANGED <<microQ, ioQ>>
        ELSE /\ collectionUsers' = [collectionUsers EXCEPT
                                      ![w] = [has |-> TRUE, map |-> Put(m, s, UserData(s))]]
             /\ microQ' = AwaitMicro(t, microQ)
             /\ ioQ' = AwaitIo(t, ioQ)
  /\ out' = <<>>
  /\ UNCHANGED <<sessions, userOf, wsKeys, workspaceSockets, pendingDisconnections, timers, rooms,
                 clientVars, chatVars, noteVars, agendaUsers, authVars, seen, hist,
                 namedRooms, errorCount, redisKeys, redisData, localCache, heap>>

\* From the reply of get: the session is put in the record, which is written back.
CollJoinAfterGet ==
  /\ Ready /\ NextTask.kind = "cjoin" /\ NextTask.pc = "afterGet"
  /\ LET t == NextTask
         key == CollectionKey(t.w)
         r == GetReturn(t, key)
         rec == Put(r.heap[r.obj], t.sid, t.user)
         t2 == [t EXCEPT !.obj = r.obj, !.pc = "afterSet", !.path = SetPath,
                         !.has = FALSE, !.val = <<>>]
     IN /\ localCache' = r.cache
        /\ redisKeys' = SetKeys(key)
        /\ redisData' = SetData(key, rec)
        /\ microQ' = AwaitMicro(t2, RestMicro)
        /\ ioQ' = AwaitIo(t2, RestIo)
        /\ heap' = Collect([r.heap EXCEPT ![r.obj] = rec], Refs(localCache', microQ', ioQ'))
  /\ out' = <<>>
  /\ collUnchanged
  /\ UNCHANGED <<collectionUsers, namedRooms, errorCount>>

\* From the reply of set: the room is joined and the workspace is told.
CollJoinAfterSet ==
  /\ Ready /\ NextTask.kind = "cjoin" /\ NextTask.pc = "afterSet"
  /\ LET t == NextTask IN
     /\ localCache' = SetReturn(t, CollectionKey(t.w), localCache)
     /\ namedRooms' = IF sessions[t.sid] = "connected"
                      THEN namedRooms \cup {<<t.sid, CollectionRoom(t.w)>>} ELSE namedRooms
     /\ out' = <<Emit("collection_user_joined", t.w, 0, <<t.user>>, t.sid),
                 Emit("collection_users_updated", t.w, 0,
                      uniqueUsers(Values(heap[t.obj])), t.sid)>>
     /\ microQ' = RestMicro
     /\ ioQ' = RestIo
     /\ heap' = Collect(heap, Refs(localCache', microQ', ioQ'))
  /\ collUnchanged
  /\ UNCHANGED <<collectionUsers, errorCount, redisKeys, redisData>>

\* `keys` on the connection of the client itself (handleDisconnect): the reply
\* is awaited, or the call raises and the catch of handleDisconnect ends it.
ClientKeysSent == client /\ isConnected /\ store = "up"
CollKeysTask(t) ==
  [t EXCEPT !.kind = "cdisc", !.pc = "afterKeys", !.path = "io", !.obj = 0,
            !.has = CollectionKey(t.w) \in redisKeys, !.val = <<>>]
\* The queues after handleLeaveCollection has returned: its caller, if it is
\* handleDisconnect, goes on with the keys of the workspace.
CollLeaveReturn(t) ==
  /\ microQ' = RestMicro
  /\ ioQ' = IF t.timer /\ ClientKeysSent THEN Append(RestIo, CollKeysTask(t)) ELSE RestIo

\* handleLeaveCollection up to `await redisService.get(redisKey)`; inDisconnect
\* is set when handleDisconnect makes the call.
CollLeaveStart(s, w, inDisconnect) ==
  LET m == collectionUsers[w].map
      t == GetCall([Task("cleave", s, w) EXCEPT !.user = Lookup(m, s),
                                                  !.timer = inDisconnect],
                   CollectionKey(w))
  IN /\ collectionUsers' = [collectionUsers EXCEPT ![w].map = Remove(m, s)]
     /\ microQ' = AwaitMicro(t, microQ)
     /\ ioQ' = AwaitIo(t, ioQ)

leave_collection(s, w) ==
  /\ CountEvent
  /\ sessions[s] = "connected"
  /\ microQ = <<>>
  /\ NumTasks < MaxTasks
  /\ IF collectionUsers[w].has /\ HasKey(collectionUsers[w].map, s)
     THEN CollLeaveStart(s, w, FALSE)
     ELSE UNCHANGED <<collectionUsers, microQ, ioQ>>
  /\ out' = <<>>
  /\ UNCHANGED <<sessions, userOf, wsKeys, workspaceSockets, pendingDisconnections, timers, rooms,
                 clientVars, chatVars, noteVars, agendaUsers, authVars, seen, hist,
                 namedRooms, errorCount, redisKeys, redisData, localCache, heap>>

CollLeaveAfterGet ==
  /\ Ready /\ NextTask.kind = "cleave" /\ NextTask.pc = "afterGet"
  /\ LET t == NextTask
         key == CollectionKey(t.w)
         r == GetReturn(t, key)
         rec == Remove(r.heap[r.obj], t.sid)
         t2 == [t EXCEPT !.obj = r.obj, !.pc = "afterSet", !.path = SetPath,
                         !.has = FALSE, !.val = <<>>]
     IN /\ localCache' = r.cache
        /\ redisKeys' = SetKeys(key)
        /\ redisData' = SetData(key, rec)
        /\ microQ' = AwaitMicro(t2, RestMicro)
        /\ ioQ' = AwaitIo(t2, RestIo)
        /\ heap' = Collect([r.heap EXCEPT ![r.obj] = rec], Refs(localCache', microQ', ioQ'))
  /\ out' = <<>>
  /\ collUnchanged
  /\ UNCHANGED <<collectionUsers, namedRooms, errorCount>>

\* From the reply of set: the room is left, the workspace is told and an empty
\* record is deleted.
CollLeaveAfterSet ==
  /\ Ready /\ NextTask.kind = "cleave" /\ NextTask.pc = "afterSet"
  /\ LET t == NextTask
         key == CollectionKey(t.w)
         cache1 == SetReturn(t, key, localCache)
         t2 == [t EXCEPT !.pc = "afterDelete", !.path = SetPath]
     IN /\ namedRooms' = namedRooms \ {<<t.sid, CollectionRoom(t.w)>>}
        /\ out' = <<Emit("collection_user_left", t.w, 0, <<t.user>>, t.sid),
                    Emit("collection_users_updated", t.w, 0,
                         uniqueUsers(Values(heap[t.obj])), t.sid)>>
        /\ IF heap[t.obj] = <<>>
           THEN /\ localCache' = DeleteCache(key, cache1)
                /\ redisKeys' = DeleteKeys(key)
                /\ redisData' = DeleteData(key)
                /\ microQ' = AwaitMicro(t2, RestMicro)
                /\ ioQ' = AwaitIo(t2, RestIo)
           ELSE /\ localCache' = cache1
                /\ CollLeaveReturn(t)
                /\ UNCHANGED <<redisKeys, redisData>>
        /\ heap' = Collect(heap, Refs(localCache', microQ', ioQ'))
  /\ collUnchanged
  /\ UNCHANGED <<collectionUsers, errorCount>>

\* From the reply of delete: the Map of the collection is dropped; when another
\* call has dropped it already, `collectionUsers.get(workspaceId)` is undefined
\* and the catch reports the TypeError.
CollLeaveAfterDelete ==
  /\ Ready /\ NextTask.kind = "cleave" /\ NextTask.pc = "afterDelete"
  /\ LET t == NextTask IN
     /\ IF collectionUsers[t.w].has
        THEN /\ collectionUsers' = [collectionUsers EXCEPT ![t.w] = NoCollection]
             /\ out' = <<>>
             /\ errorCount' = errorCount
        ELSE /\ collectionUsers' = collectionUsers
             /\ out' = IF sessions[t.sid] = "connected"
                       THEN <<Emit("error", t.w, t.sid, <<>>, t.sid)>> ELSE <<>>
             /\ errorCount' = errorOccurred(errorCount)
     /\ CollLeaveReturn(t)
     /\ heap' = Collect(heap, Refs(localCache, microQ', ioQ'))
  /\ collUnchanged
  /\ UNCHANGED <<namedRooms, redisKeys, redisData, localCache>>

\* CollectionHandler.handleDisconnect up to its first await.
CollectionDisconnect(s) ==
  /\ sessions[s] = "connected"
  /\ microQ = <<>>
  /\ NumTasks < MaxTasks
  /\ sessions' = [sessions EXCEPT ![s] = "disconnected"]
  /\ \E w \in FleetWorkspaces :
       IF ~collectionUsers[w].has
       THEN UNCHANGED <<collectionUsers, microQ, ioQ>>
       ELSE IF HasKey(collectionUsers[w].map, s)
       THEN CollLeaveStart(s, w, TRUE)
       ELSE /\ microQ' = microQ
            /\ ioQ' = IF ClientKeysSent
                      THEN Append(ioQ, CollKeysTask(Task("cdisc", s, w))) ELSE ioQ
            /\ collectionUsers' = collectionUsers
  /\ out' = <<>>
  /\ UNCHANGED <<userOf, wsKeys, workspaceSockets, pendingDisconnections, timers, rooms,
                 clientVars, chatVars, noteVars, agendaUsers, authVars, seen, hist, events,
                 namedRooms, errorCount, redisKeys, redisData, localCache, heap>>

\* The loop over the keys of the workspace: the record of each is read.
CollDiscAfterKeys ==
  /\ Ready /\ NextTask.kind = "cdisc" /\ NextTask.pc = "afterKeys"
  /\ LET t == NextTask
         t2 == GetCall([t EXCEPT !.pc = "afterGet"], CollectionKey(t.w))
     IN IF t.has
        THEN /\ microQ' = AwaitMicro(t2, RestMicro)
             /\ ioQ' = AwaitIo(t2, RestIo)
        ELSE /\ microQ' = RestMicro
             /\ ioQ' = RestIo
  /\ out' = <<>>
  /\ heap' = Collect(heap, Refs(localCache, microQ', ioQ'))
  /\ collUnchanged
  /\ UNCHANGED <<collectionUsers, namedRooms, errorCount, redisKeys, redisData, localCache>>

\* A session found in the record but not in the Map is taken out of the record.
CollDiscAfterGet ==
  /\ Ready /\ NextTask.kind = "cdisc" /\ NextTask.pc = "afterGet"
  /\ LET t == NextTask
         key == CollectionKey(t.w)
         r == GetReturn(t, key)
         cur == r.heap[r.obj]
         t2 == [t EXCEPT !.obj = r.obj, !.pc = "afterSet", !.path = SetPath,
                         !.has = FALSE, !.val = <<>>, !.user = Lookup(cur, t.sid)]
     IN /\ localCache' = r.cache
        /\ IF HasKey(cur, t.sid)
           THEN /\ redisKeys' = SetKeys(key)
                /\ redisData' = SetData(key, Remove(cur, t.sid))
                /\ microQ' = AwaitMicro(t2, RestMicro)
                /\ ioQ' = AwaitIo(t2, RestIo)
                /\ heap' = Collect([r.heap EXCEPT ![r.obj] = Remove(cur, t.sid)],
                                   Refs(localCache', microQ', ioQ'))
           ELSE /\ microQ' = RestMicro
                /\ ioQ' = RestIo
                /\ heap' = Collect(r.heap, Refs(localCache', microQ', ioQ'))
                /\ UNCHANGED <<redisKeys, redisData>>
  /\ out' = <<>>
  /\ collUnchanged
  /\ UNCHANGED <<collectionUsers, namedRooms, errorCount>>

CollDiscAfterSet ==
  /\ Ready /\ NextTask.kind = "cdisc" /\ NextTask.pc = "afterSet"
  /\ LET t == NextTask
         key == CollectionKey(t.w)
         cache1 == SetReturn(t, key, localCache)
         t2 == [t EXCEPT !.pc = "afterDelete", !.path = SetPath]
     IN /\ out' = <<Emit("collection_user_left", t.w, 0, <<t.user>>, t.sid),
                    Emit("collection_users_updated", t.w, 0,
                         uniqueUsers(Values(heap[t.obj])), t.sid)>>
        /\ IF heap[t.obj] = <<>>
           THEN /\ localCache' = DeleteCache(key, cache1)
                /\ redisKeys' = DeleteKeys(key)
                /\ redisData' = DeleteData(key)
                /\ microQ' = AwaitMicro(t2, RestMicro)
                /\ ioQ' = AwaitIo(t2, RestIo)
           ELSE /\ localCache' = cache1
                /\ microQ' = RestMicro
                /\ ioQ' = RestIo
                /\ UNCHANGED <<redisKeys, redisData>>
        /\ heap' = Collect(heap, Refs(localCache', microQ', ioQ'))
  /\ collUnchanged
  /\ UNCHANGED <<collectionUsers, namedRooms, errorCount>>

CollDiscAfterDelete ==
  /\ Ready /\ NextTask.kind = "cdisc" /\ NextTask.pc = "afterDelete"
  /\ microQ' = RestMicro
  /\ ioQ' = RestIo
  /\ out' = <<>>
  /\ heap' = Collect(heap, Refs(localCache, microQ', ioQ'))
  /\ collUnchanged
  /\ UNCHANGED <<collectionUsers, namedRooms, errorCount, redisKeys, redisData, localCache>>

\* ------------------------------------- the cache switch (configureCaching)
connVars == <<isConnected, circuitOpen, circuitResetTime, failureCount, reconnectAttempts,
              reconnectTimers, client, store>>
\* The operations of the client that write to the cache.
CachingOps == {"get", "set", "mget", "mset", "increment"}

\* RedisService.configureCaching with options.enabled: the flag is set, and the
\* whole cache is cleared when it is set to false.
configureCaching(enabled) ==
  /\ CountEvent
  /\ microQ = <<>>
  /\ cacheEnabled' = enabled
  /\ IF enabled
     THEN UNCHANGED <<localCache, noteCache, authCache, heap>>
     ELSE /\ localCache' = [k \in Keys |-> 0]
          /\ noteCache' = [w \in NoteWorkspaces |-> [n \in NoteIds |-> Undefined]]
          /\ authCache' = {}
          /\ heap' = Collect(heap, Refs(localCache', microQ, ioQ))
  /\ out' = <<>>
  /\ UNCHANGED <<sessions, userOf, wsKeys, workspaceSockets, pendingDisconnections, timers, rooms,
                 redisKeys, redisData, microQ, ioQ, hist, connVars, chatVars, namedRooms,
                 noteUsers, noteContents, noteStore, noteUsersStore, agendaUsers, errorCount,
                 rateLimitMap, rateSweepAt, collectionUsers, seen>>

\* get, set, mget, mset and increment up to their await.  set and mset send the
\* value as it is at the call; mset caches each value before it awaits; mget
\* looks at the cache only when the call is not blocked.
CachingCall(op, key, value) ==
  /\ CountEvent
  /\ microQ = <<>>
  /\ NumTasks < MaxTasks
  /\ LET base == [Task("op", 0, 0) EXCEPT !.content = op, !.existing = cacheEnabled,
                                          !.pc = "afterCall"]
         o == NewObj(localCache, microQ, ioQ, base)
         t == CASE op = "get" -> [GetCall(base, key) EXCEPT !.pc = "afterCall"]
                [] op = "mget" -> IF SetBlocked THEN [base EXCEPT !.path = "blocked"]
                                  ELSE [GetCall(base, key) EXCEPT !.pc = "afterCall"]
                [] op \in {"set", "mset"} -> [base EXCEPT !.path = SetPath, !.obj = o]
                [] op = "increment" -> [base EXCEPT !.path = SetPath]
     IN /\ microQ' = AwaitMicro(t, microQ)
        /\ ioQ' = AwaitIo(t, ioQ)
        /\ redisKeys' = IF op \in {"set", "mset"} THEN SetKeys(key) ELSE redisKeys
        /\ redisData' = IF op \in {"set", "mset"} THEN SetData(key, value) ELSE redisData
        /\ localCache' = IF op = "mset" /\ ~SetBlocked /\ cacheEnabled
                         THEN [localCache EXCEPT ![key] = o] ELSE localCache
        /\ heap' = Collect(IF op \in {"set", "mset"} THEN [heap EXCEPT ![o] = value] ELSE heap,
                           Refs(localCache', microQ', ioQ'))
  /\ out' = <<>>
  /\ UNCHANGED <<sessions, userOf, wsKeys, workspaceSockets, pendingDisconnections, timers, rooms,
                 hist, clientVars, chatVars, extVars>>

\* The same operations from the reply on: get, mget, set and increment cache
\* the value if cacheEnabled holds then; mset has nothing left to do.
CachingReturn ==
  /\ Ready /\ NextTask.kind = "op"
  /\ LET t == NextTask
         op == t.content
     IN \E key \in ClientKeys :
          LET r == GetReturn(t, key)
              o == NewObj(localCache, RestMicro, RestIo, t)
          IN /\ localCache' =
                  CASE op \in {"get", "mget"} -> r.cache
                    [] op = "set" -> SetReturn(t, key, localCache)
                    [] op = "mset" -> localCache
                    [] op = "increment" -> SetReturn([t EXCEPT !.obj = o], key, localCache)
             /\ microQ' = RestMicro
             /\ ioQ' = RestIo
             /\ heap' = Collect(IF op \in {"get", "mget"} THEN r.heap ELSE heap,
                                Refs(localCache', microQ', ioQ'))
             /\ seen' = [seen EXCEPT !.late = IF t.existing /\ ~cacheEnabled /\ t.path = "io"
                                              THEN @ \cup {op} ELSE @]
  /\ out' = <<>>
  /\ UNCHANGED <<sessions, userOf, wsKeys, workspaceSockets, pendingDisconnections, timers, rooms,
                 redisKeys, redisData, hist, clientVars, chatVars, events, extRest>>

\* ------------------------------------------------------ handshake (auth.js)
MAX_CONNECTIONS_PER_MINUTE == 60
RATE_LIMIT_WINDOW == 60000

\* Bearer tokens by what jwt.verify and the handler look at.  NoToken is a
\* handshake without a token; the store holds `blacklist:{token}` for the
\* tokens of RevokedKeys.
NoToken ==
  [key |-> 0, alg |-> "", signed |-> FALSE, expired |-> FALSE, old |-> FALSE,
   id |-> FALSE, email |-> FALSE]
GoodToken(k) ==
  [key |-> k, alg |-> "HS256", signed |-> TRUE, expired |-> FALSE, old |-> FALSE,
   id |-> TRUE, email |-> TRUE]
RevokedKeys == {2}
Tokens ==
  {NoToken, GoodToken(1), GoodToken(2),
   [GoodToken(1) EXCEPT !.alg = "RS256"], [GoodToken(1) EXCEPT !.signed = FALSE],
   [GoodToken(1) EXCEPT !.expired = TRUE], [GoodToken(1) EXCEPT !.old = TRUE],
   [GoodToken(1) EXCEPT !.id = FALSE], [GoodToken(1) EXCEPT !.email = FALSE]}

NoLimit == [has |-> FALSE, count |-> 0, lastReset |-> 0]
\* `data.count > MAX_CONNECTIONS_PER_MINUTE`
Exceeds_AtLimit(count) == count >= MAX_CONNECTIONS_PER_MINUTE
Exceeds(count) == count > MAX_CONNECTIONS_PER_MINUTE
\* checkRateLimit(ip) at time t: [limited, map].
checkRateLimit(m, ip, t) ==
  IF ~m[ip].has \/ t - m[ip].lastReset > RATE_LIMIT_WINDOW
  THEN [limited |-> FALSE,
        map |-> [m EXCEPT ![ip] = [has |-> TRUE, count |-> 1, lastReset |-> t]]]
  ELSE [limited |-> Exceeds(m[ip].count + 1), map |-> [m EXCEPT ![ip].count = @ + 1]]

\* isTokenBlacklisted(token): redisService.get(`blacklist:${token}`) from call to
\* result and `!!blacklisted`: [value, c, cache].
isTokenBlacklisted(tok) ==
  IF cacheEnabled /\ tok.key \in authCache
  THEN [value |-> TRUE, c |-> ClientState, cache |-> authCache]
  ELSE LET a == Admit(ClientState) IN
       IF ~a.ok THEN [value |-> FALSE, c |-> a.c, cache |-> authCache]
       ELSE IF store = "up"
       THEN [value |-> tok.key \in RevokedKeys, c |-> a.c,
             cache |-> IF tok.key \in RevokedKeys /\ cacheEnabled
                       THEN authCache \cup {tok.key} ELSE authCache]
       ELSE [value |-> FALSE, c |-> handleFailure(a.c), cache |-> authCache]

\* jwt.verify(token, secret, {algorithms: ['HS256'], maxAge: '1h'}) and the
\* check of the id and email claims.
verify(tok) ==
  IF tok.alg # "HS256" \/ ~tok.signed THEN "invalid"
  ELSE IF tok.expired \/ tok.old THEN "expired"
  ELSE IF ~tok.id \/ ~tok.email THEN "invalid"
  ELSE "admitted"

\* The window of an address as counted from its handshakes alone.
NextWindow(win, t) ==
  IF win.k = 0 \/ t - win.start > RATE_LIMIT_WINDOW THEN [start |-> t, k |-> 1]
  ELSE [win EXCEPT !.k = @ + 1]

\* authenticateSocket, from the handshake to the call of next().
handshake(ip, tok) ==
  /\ UNCHANGED collectionUsers
  /\ events' = events
  /\ microQ = <<>> /\ ioQ = <<>>
  /\ now < rateSweepAt
  /\ rateLimitMap[ip].count < MAX_CONNECTIONS_PER_MINUTE + 2
       \/ now - rateLimitMap[ip].lastReset > RATE_LIMIT_WINDOW
  /\ LET r == checkRateLimit(rateLimitMap, ip, now)
         b == isTokenBlacklisted(tok)
         asked == ~r.limited /\ tok # NoToken
         result == IF r.limited THEN "rate limited"
                   ELSE IF tok = NoToken THEN "required"
                   ELSE IF b.value THEN "revoked"
                   ELSE verify(tok)
     IN /\ rateLimitMap' = r.map
        /\ SetClientState(IF asked THEN b.c ELSE ClientState)
        /\ authCache' = IF asked THEN b.cache ELSE authCache
        /\ seen' = [seen EXCEPT !.shake = [on |-> TRUE, ip |-> ip, tok |-> tok,
                                           result |-> result],
                                !.win[ip] = NextWindow(@, now)]
  /\ out' = <<>>
  /\ UNCHANGED <<namedRooms, agendaUsers, errorCount, noteVars, rateSweepAt, sessions, userOf, wsKeys,
                 workspaceSockets, pendingDisconnections, timers, rooms, redisKeys,
                 redisData, localCache, heap, hist, cacheEnabled, client, store, chatVars,
                 microQ, ioQ>>

\* Time passes, at most to the next run of the cleanup interval.
RateTick(d) ==
  /\ UNCHANGED collectionUsers
  /\ events < MaxRateTicks
  /\ events' = events + 1
  /\ microQ = <<>>
  /\ d > 0
  /\ now + d <= rateSweepAt
  /\ now' = now + d
  /\ out' = <<>>
  /\ UNCHANGED <<namedRooms, agendaUsers, errorCount, noteVars, seen, rateLimitMap, rateSweepAt, authCache,
                 sessions, userOf, wsKeys, workspaceSockets, pendingDisconnections, timers,
                 rooms, redisKeys, redisData, localCache, heap, hist, clientVars,
                 workspaceMessages, typingUsers, typingSweepAt, microQ, ioQ>>

RateStep == \E d \in {1, RATE_LIMIT_WINDOW, rateSweepAt - now} : RateTick(d)

\* The setInterval callback: entries older than two windows are deleted.
RateCleanup ==
  /\ UNCHANGED collectionUsers
  /\ events' = events
  /\ microQ = <<>>
  /\ now = rateSweepAt
  /\ rateLimitMap' = [ip \in Ips |->
                        IF rateLimitMap[ip].has
                           /\ now - rateLimitMap[ip].lastReset > RATE_LIMIT_WINDOW * 2
                        THEN NoLimit ELSE rateLimitMap[ip]]
  /\ rateSweepAt' = rateSweepAt + RATE_LIMIT_WINDOW * 5
  /\ out' = <<>>
  /\ UNCHANGED <<namedRooms, agendaUsers, errorCount, noteVars, seen, authCache, coreVars, microQ, ioQ>>

\* The cache entry of a blacklist key outlives cacheTTL.
AuthCacheExpire ==
  /\ UNCHANGED collectionUsers
  /\ events' = events
  /\ microQ = <<>>
  /\ authCache # {}
  /\ authCache' = {}
  /\ out' = <<>>
  /\ UNCHANGED <<namedRooms, agendaUsers, errorCount, noteVars, seen, rateLimitMap, rateSweepAt, coreVars, microQ, ioQ>>

\* ------------------------------------------------------- specifications
\* The instance has started and its client is connected to the store.
NoCursor == [on |-> FALSE, sid |-> 0, member |-> FALSE, members |-> {}, out |-> <<>>]
InitListed(lists) ==
  /\ namedRooms = {}
  /\ noteUsers = [n \in NoteIds |-> IF lists[n] = <<>> THEN NoList
                                    ELSE [has |-> TRUE, list |-> lists[n]]]
  /\ noteUsersStore = [w \in NoteWorkspaces |-> [n \in NoteIds |->
                                                  IF w = 1 THEN lists[n] ELSE <<>>]]
  /\ noteContents = [n \in NoteIds |-> Undefined]
  /\ noteCache = [w \in NoteWorkspaces |-> [n \in NoteIds |-> Undefined]]
  /\ agendaUsers = [w \in Workspaces |-> <<>>]
  /\ collectionUsers = [w \in Workspaces |-> NoCollection]
  /\ errorCount = 0
  /\ rateLimitMap = [ip \in Ips |-> NoLimit]
  /\ rateSweepAt = RATE_LIMIT_WINDOW * 5
  /\ authCache = {}

InitLocal == InitListed([n \in NoteIds |-> <<>>])

\* The history record; stored is the content the store held at startup.
InitSeen ==
  /\ seen = [noteIn |-> {}, stored |-> noteStore, cursor |-> NoCursor,
             accepted |-> {}, updates |-> 0, emitted |-> 0, dirty |-> {},
             submitted |-> [w \in NoteWorkspaces |-> [n \in NoteIds |-> {}]],
             latest |-> [w \in NoteWorkspaces |-> [n \in NoteIds |-> Undefined]],
             shake |-> [on |-> FALSE, ip |-> 0, tok |-> NoToken, result |-> ""],
             win |-> [ip \in Ips |-> [start |-> 0, k |-> 0]],
             joined |-> <<>>, failed |-> 0, late |-> {},
             malformed |-> [ev |-> "", sid |-> 0, seq |-> 0]]
\* No note has stored content.
NoStoredNotes == [w \in NoteWorkspaces |-> [n \in NoteIds |-> Undefined]]
InitExt == InitLocal /\ noteStore = NoStoredNotes /\ InitSeen

InitWith(local, keys, data) ==
  /\ sessions = [s \in Sessions |-> IF HasKey(local, s) THEN "connected" ELSE "idle"]
  /\ userOf = [s \in Sessions |-> IF HasKey(local, s) THEN Lookup(local, s).email ELSE ""]
  /\ wsKeys = IF local = <<>> THEN <<>> ELSE <<1>>
  /\ workspaceSockets = [w \in Workspaces |-> IF w = 1 THEN local ELSE <<>>]
  /\ pendingDisconnections = <<>>
  /\ timers = {}
  /\ rooms = {<<s, 1>> : s \in KeySet(local)}
  /\ redisKeys = keys
  /\ redisData = data
  /\ localCache = [k \in Keys |-> 0]
  /\ cacheEnabled = TRUE
  /\ isConnected = TRUE
  /\ circuitOpen = FALSE
  /\ circuitResetTime = -1
  /\ failureCount = 0
  /\ reconnectAttempts = 0
  /\ reconnectTimers = <<>>
  /\ client = TRUE
  /\ store = "up"
  /\ workspaceMessages = [w \in Workspaces |-> <<>>]
  /\ typingUsers = [w \in Workspaces |-> <<>>]
  /\ now = 0
  /\ typingSweepAt = TYPING_TIMEOUT
  /\ heap = [o \in ObjIds |-> <<>>]
  /\ microQ = <<>>
  /\ ioQ = <<>>
  /\ out = <<>>
  /\ events = 0
  /\ hist = [graceLeft |-> [s \in Sessions |-> [w \in Workspaces |-> 0]],
             discIn |-> [s \in Sessions |-> {}],
             rejoined |-> {},
             calm |-> {},
             last |-> [s \in Sessions |-> [ev |-> "none", w |-> 0]],
             swept |-> "no",
             call |-> NoCall,
             streak |-> 0,
             stops |-> [w \in Workspaces |-> [e \in EmailSet |-> -1]],
             typingEvent |-> [w \in Workspaces |-> [e \in EmailSet |-> 0]]]

\* The state after construction: nobody is present, the store is empty.
InitCore == InitWith(<<>>, {}, [k \in Keys |-> <<>>])

Init == InitExt /\ InitCore

\* The sweeper starts from any presence of workspace 1: an in-process map that
\* joins have built, and a shared record that this and other instances wrote.
SweepSids == Sessions \cup PeerSessions
Entry(sid, e) == [sid |-> sid, user |-> [email |-> e, snap |-> sid]]
Records(sids) ==
  {m \in UNION {[1..n -> {Entry(x, e) : x \in sids, e \in EmailSet}] : n \in 0..Cardinality(sids)} :
     \A i, j \in 1..Len(m) : i # j => m[i].sid # m[j].sid}
LocalMaps ==
  {m \in Records(Sessions) :
     /\ \A i \in 1..Len(m) : m[i].user.email \in EmailsFor(m[i].sid)
     /\ \A i, j \in 1..Len(m) : i # j => m[i].user.email # m[j].user.email}
InitSweep ==
  /\ InitExt
  /\ \E local \in LocalMaps, rec \in Records(SweepSids) :
       InitWith(local, {WorkspaceKey(1)}, [k \in Keys |-> IF k = WorkspaceKey(1) THEN rec
                                                          ELSE <<>>])

NextSweep == cleanupDuplicateUsers \/ SweepAfterKeys \/ SweepAfterGet \/ SweepAfterSet

SpecSweep == InitSweep /\ [][NextSweep]_vars
\* A content text left in the store by an earlier run of the process.
StoredNotes == {NoStoredNotes, [NoStoredNotes EXCEPT ![1][1] = "a"]}
InitNote == InitLocal /\ noteStore \in StoredNotes /\ InitSeen /\ InitCore

Resume ==
  \/ JoinAfterGet \/ JoinAfterSet
  \/ LeaveAfterGet \/ LeaveAfterSet
  \/ GetUsersAfterGet
  \/ SweepAfterKeys \/ SweepAfterGet \/ SweepAfterSet

\* One instance of a fleet: every handler, and the writes of the other instances.
Next ==
  \/ \E s \in Sessions : (\E e \in EmailsFor(s) : Connect(s, e)) \/ handleDisconnect(s)
  \/ \E s \in Sessions, w \in FleetWorkspaces :
       \/ join_workspace(s, w)
       \/ leave_workspace(s, w)
       \/ get_workspace_users(s, w)
       \/ GraceTimerFire(s, w)
  \/ cleanupDuplicateUsers
  \/ \E w \in FleetWorkspaces : CacheExpire(WorkspaceKey(w))
  \/ \E p \in PeerSessions, w \in FleetWorkspaces : PeerJoin(p, w) \/ PeerLeave(p, w)
  \/ Resume

Spec == Init /\ [][Next]_vars

\* Disconnects, grace timers and re-joins only.
NextGrace ==
  \/ \E s \in Sessions : (\E e \in EmailsFor(s) : Connect(s, e)) \/ handleDisconnect(s)
  \/ \E s \in Sessions, w \in Workspaces : join_workspace(s, w) \/ GraceTimerFire(s, w)
  \/ JoinAfterGet \/ JoinAfterSet \/ LeaveAfterGet \/ LeaveAfterSet

SpecGrace == Init /\ [][NextGrace]_vars

\* Joins, leaves and the sweeper.
NextRace ==
  \/ \E s \in Sessions : \E e \in EmailsFor(s) : Connect(s, e)
  \/ \E s \in Sessions, w \in Workspaces : join_workspace(s, w) \/ leave_workspace(s, w)
  \/ cleanupDuplicateUsers
  \/ JoinAfterGet \/ JoinAfterSet \/ LeaveAfterGet \/ LeaveAfterSet
  \/ SweepAfterKeys \/ SweepAfterGet

SpecRace == Init /\ [][NextRace]_vars

\* The state after construction: the client has never been connected and the
\* startup call of initialize() is pending.
InitClient ==
  /\ InitExt
  /\ sessions = [s \in Sessions |-> "idle"]
  /\ userOf = [s \in Sessions |-> ""]
  /\ wsKeys = <<>>
  /\ workspaceSockets = [w \in Workspaces |-> <<>>]
  /\ pendingDisconnections = <<>>
  /\ timers = {}
  /\ rooms = {}
  /\ redisKeys = {}
  /\ redisData = [k \in Keys |-> <<>>]
  /\ localCache = [k \in Keys |-> 0]
  /\ cacheEnabled = TRUE
  /\ isConnected = FALSE
  /\ circuitOpen = FALSE
  /\ circuitResetTime = -1
  /\ failureCount = 0
  /\ reconnectAttempts = 0
  /\ reconnectTimers = <<[kind |-> "startup", left |-> 0]>>
  /\ client = FALSE
  /\ store \in {"up", "down"}
  /\ workspaceMessages = [w \in Workspaces |-> <<>>]
  /\ typingUsers = [w \in Workspaces |-> <<>>]
  /\ now = 0
  /\ typingSweepAt = TYPING_TIMEOUT
  /\ heap = [o \in ObjIds |-> <<>>]
  /\ microQ = <<>>
  /\ ioQ = <<>>
  /\ out = <<>>
  /\ events = 0
  /\ hist = [graceLeft |-> [s \in Sessions |-> [w \in Workspaces |-> 0]],
             discIn |-> [s \in Sessions |-> {}],
             rejoined |-> {},
             calm |-> {},
             last |-> [s \in Sessions |-> [ev |-> "none", w |-> 0]],
             swept |-> "no",
             call |-> NoCall,
             streak |-> 0,
             stops |-> [w \in Workspaces |-> [e \in EmailSet |-> -1]],
             typingEvent |-> [w \in Workspaces |-> [e \in EmailSet |-> 0]]]

\* Time passes up to the next timer deadline or reset instant, or just past it.
Tick ==
  \E d \in {reconnectTimers[i].left : i \in 1..Len(reconnectTimers)}
            \cup {circuitResetTime, circuitResetTime + 1} : Advance(d)

\* The client, its store and its callers.  Time passes and a due call of
\* initialize() runs; callers keep calling set.
ClientFairness ==
  /\ WF_vars(initialize({FALSE}))
  /\ WF_vars(Tick)
  /\ WF_vars(\E k \in ClientKeys, v \in SetValues : set(k, v))

NextClient ==
  \/ \E s \in Sessions : \E e \in EmailsFor(s) : Connect(s, e)
  \/ initialize({FALSE})
  \/ \E m \in {"up", "degraded", "down"} : StoreChange(m)
  \/ Tick
  \/ \E k \in ClientKeys : get(k) \/ (\E v \in SetValues : set(k, v))
  \/ healthCheck
  \/ \E s \in Sessions, w \in FleetWorkspaces : get_collections_users(s, w)

\* Every public operation of the shared-state client, from a client that was
\* never initialised on.
NextOps ==
  \/ initialize({FALSE})
  \/ \E m \in {"up", "degraded", "down"} : StoreChange(m)
  \/ Tick
  \/ \E k \in ClientKeys : get(k) \/ (\E v \in SetValues : set(k, v))
  \/ healthCheck
  \/ \E op \in OtherOps, k \in ClientKeys, v \in SetValues : operation(op, k, v)

SpecOps == InitClient /\ [][NextOps]_vars

\* The client and its reconnect timers during an outage that does not end, with
\* a connection that may raise `end` when a connect fails.
NextOutage ==
  \/ initialize(BOOLEAN)
  \/ StoreChange("down")
  \/ Tick

SpecOutage == InitClient /\ [][NextOutage]_vars

\* The chat handler.
NextChat ==
  \/ \E s \in ChatSessions : (\E e \in EmailsFor(s) : Connect(s, e)) \/ handleDisconnect(s)
  \/ \E s \in ChatSessions, w \in FleetWorkspaces :
       \/ \E content \in {"", "hi"} : new_message(s, w, userOf[s], content)
       \/ user_typing(s, w, userOf[s])
       \/ user_stop_typing(s, w, userOf[s])
  \/ MsgAfterGet \/ MsgAfterSet \/ TypingAfterGet \/ TypingAfterSet
  \/ TypingCleanup
  \/ ChatTick

SpecChat == Init /\ [][NextChat]_vars

\* Events whose payload may lack a required field.
NextInvalid ==
  \/ \E s \in Sessions : \E e \in EmailsFor(s) : Connect(s, e)
  \/ \E s \in ChatSessions, w \in FleetWorkspaces \cup {NoWorkspace} :
     \E e \in {"", userOf[s]} :
       \/ \E content \in {"", "hi"} : new_message(s, w, e, content)
       \/ user_typing(s, w, e)
       \/ user_stop_typing(s, w, e)
  \/ MsgAfterGet \/ MsgAfterSet \/ TypingAfterGet \/ TypingAfterSet
  \/ \E s \in Sessions, w \in Workspaces, n \in NoteIds :
       join_note(s, w, n) \/ \E c \in {Undefined, "a"} : note_content_update(s, w, n, c)
  \/ NoteJoinAfterSet \/ NoteJoinAfterGet \/ NoteContentAfterSet

SpecInvalid == Init /\ [][NextInvalid]_vars

\* The note handler: presence and cursors.
NextNote ==
  \/ \E s \in Sessions : (\E e \in EmailsFor(s) : Connect(s, e)) \/ handleDisconnect(s)
  \/ \E s \in Sessions, w \in Workspaces, n \in NoteIds :
       join_note(s, w, n) \/ leave_note(s, w, n) \/ cursor_update(s, w, n)
  \/ NoteJoinAfterSet \/ NoteJoinAfterGet \/ NoteLeaveAfterSet

SpecNote == Init /\ [][NextNote]_vars

\* The note handler: content.
NextContent ==
  \/ \E s \in Sessions : \E e \in EmailsFor(s) : Connect(s, e)
  \/ \E s \in Sessions, w \in Workspaces, n \in NoteIds :
       join_note(s, w, n) \/ \E c \in Contents : note_content_update(s, w, n, c)
  \/ \E w \in Workspaces, n \in NoteIds : NoteCacheExpire(w, n)
  \/ NoteJoinAfterSet \/ NoteJoinAfterGet \/ NoteContentAfterSet

SpecContent == InitNote /\ [][NextContent]_vars

\* The rate limit of the handshake.
NextRate ==
  \/ \E ip \in Ips : handshake(ip, NoToken)
  \/ RateStep
  \/ RateCleanup

SpecRate == Init /\ [][NextRate]_vars

\* The handshake in production mode while the store and the client change state.
NextAuth ==
  \/ \E tok \in Tokens : rateLimitMap[1].count < MaxShakes /\ handshake(1, tok)
  \/ initialize({FALSE})
  \/ \E m \in {"up", "degraded", "down"} : StoreChange(m)
  \/ Tick
  \/ AuthCacheExpire

SpecAuth == Init /\ [][NextAuth]_vars

\* The task handler, with sessions that join the workspace.
NextTasks ==
  \/ \E s \in Sessions : (\E e \in EmailsFor(s) : Connect(s, e)) \/ handleDisconnect(s)
  \/ \E s \in Sessions, w \in FleetWorkspaces :
       \/ join_workspace(s, w)
       \/ join_agenda(s, w, TRUE)
       \/ leave_agenda(s, w)
       \/ \E ev \in TaskEvents : task_event(s, w, ev, "task")
  \/ JoinAfterGet \/ JoinAfterSet
  \/ AgendaJoinAfterGet \/ AgendaJoinAfterSet \/ AgendaLeaveAfterGet \/ AgendaLeaveAfterSet

SpecTask == Init /\ [][NextTasks]_vars

\* The store goes down before the first event.
Outage == events = 0 /\ StoreChange("down")

\* The workspace handler during an outage of the store.
NextLocal ==
  \/ \E s \in Sessions : \E e \in EmailsFor(s) : Connect(s, e)
  \/ Outage
  \/ \E s \in Sessions, w \in FleetWorkspaces :
       \/ join_workspace(s, w)
       \/ leave_workspace(s, w)
       \/ get_workspace_users(s, w)
  \/ JoinAfterGet \/ JoinAfterSet \/ LeaveAfterGet \/ LeaveAfterSet \/ GetUsersAfterGet

SpecLocal == Init /\ [][NextLocal]_vars

\* The task handler with events that arrive without their payload.
NextFail ==
  \/ \E s \in Sessions : (\E e \in EmailsFor(s) : Connect(s, e)) \/ handleDisconnect(s)
  \/ \E s \in Sessions, w \in FleetWorkspaces :
       \/ \E given \in BOOLEAN : join_agenda(s, w, given)
       \/ \E ev \in TaskEvents, taskData \in {Undefined, "task"} : task_event(s, w, ev, taskData)
  \/ AgendaJoinAfterGet \/ AgendaJoinAfterSet \/ AgendaLeaveAfterGet \/ AgendaLeaveAfterSet

SpecFail == Init /\ [][NextFail]_vars

SpecClient == InitClient /\ [][NextClient]_vars

SpecClientFair == SpecClient /\ ClientFairness

\* ------------------------------------------------------------ properties
LocalSids(w) == KeySet(workspaceSockets[w])
SharedSids(w) == KeySet(redisData[WorkspaceKey(w)])
Quiet == NumTasks = 0
Distinct(users) ==
  \A i, j \in 1..Len(users) : users[i].email = users[j].email => i = j
\* Session s disconnected, none of its grace timers is still to fire and no
\* handler is suspended.
GraceOver(s) ==
  /\ sessions[s] = "disconnected"
  /\ \A w \in Workspaces : <<s, w>> \notin timers
  /\ Quiet

\* C1: a session that joined exactly one workspace disconnects.  When a session
\* of the same email re-joins the workspace before the grace timer fires, no
\* user_left is broadcast for the disconnected session; otherwise exactly one
\* user_left has been broadcast once the timer is over.
C1_ReconnectGrace ==
  \A s \in Sessions : \A w \in hist.discIn[s] :
    hist.discIn[s] = {w} =>
      /\ <<s, w>> \in hist.rejoined => hist.graceLeft[s][w] = 0
      /\ (<<s, w>> \notin hist.rejoined /\ GraceOver(s)) => hist.graceLeft[s][w] = 1

\* C2: every users_connected payload holds each email at most once.
C2_PayloadDistinct ==
  \A i \in 1..Len(out) : out[i].ev = "users_connected" => Distinct(out[i].users)

\* A users_connected payload computed from a shared record that holds two
\* sessions of one user.
C2_Witness ==
  \E i \in 1..Len(out) :
    LET rec == Values(redisData[WorkspaceKey(out[i].w)]) IN
    /\ out[i].ev = "users_connected"
    /\ ~Distinct(rec)
    /\ out[i].users = removeDuplicateUsers(rec)

\* C3: once no join or leave is in flight and the sweeper has run, the
\* in-process map and the shared record of a workspace hold the same sessions.
C3_LocalEqualsShared ==
  (hist.swept = "yes" /\ Quiet) => \A w \in Workspaces : LocalSids(w) = SharedSids(w)

\* C4: while the breaker is open and its reset instant has not passed, no call
\* on the client or on its connection sends a command to the store.
C4_OpenSendsNothing == hist.call.open => ~hist.call.sent

\* C5: when the store comes up and stays up, the client is eventually connected
\* for good, with the breaker closed and the health check healthy.
C5_Recovers == <>[](store = "up") => <>[](isConnected /\ ~circuitOpen /\ healthStatus = "healthy")

\* C6: a grace timer of (session, workspace) is live exactly when
\* pendingDisconnections tracks that pair.
C6_TimerIffPending ==
  \A s \in Sessions, w \in Workspaces :
    <<s, w>> \in timers <=>
      (HasPending(pendingDisconnections, s) /\ PendingOf(pendingDisconnections, s).w = w)

\* C7: a session that disconnects from k workspaces while no handler is
\* suspended, and that no session re-joins for, is, once its timers are over,
\* absent from the in-process map and the shared record of each of them, and
\* each of them got exactly one user_left.
C7_LeavesAll ==
  \A s \in hist.calm :
    (GraceOver(s) /\ \A w \in hist.discIn[s] : <<s, w>> \notin hist.rejoined)
      => \A w \in hist.discIn[s] :
           /\ s \notin LocalSids(w)
           /\ s \notin SharedSids(w)
           /\ hist.graceLeft[s][w] = 1

\* C8: a join_workspace immediately followed by a leave_workspace of the same
\* session and workspace ends with the session absent from the in-process map,
\* the shared record and the room.
C8_JoinThenLeave ==
  \A s \in Sessions :
    (sessions[s] = "connected" /\ hist.last[s].ev = "join_leave" /\ Quiet)
      => /\ s \notin LocalSids(hist.last[s].w)
         /\ s \notin SharedSids(hist.last[s].w)
         /\ <<s, hist.last[s].w>> \notin rooms

TypingEntry(w, e) ==
  typingUsers[w][CHOOSE i \in 1..Len(typingUsers[w]) : typingUsers[w][i].email = e]

\* C9: once every new_message is fully processed, the history of the process
\* and `chat:{w}:messages` hold the same messages, at most MESSAGE_LIMIT of them.
C9_HistoriesAgree ==
  Quiet => \A w \in Workspaces :
             /\ redisData[ChatKey(w)] = workspaceMessages[w]
             /\ Len(workspaceMessages[w]) <= MESSAGE_LIMIT

\* C10: after the user_typing broadcast of an event whose entry is in place and
\* that no user_typing, user_stop_typing or new_message of that email follows,
\* user_stop_typing is broadcast once: not while the entry is there, which lasts
\* at most TYPING_TIMEOUT plus one sweep interval, and once when it is gone.
C10_StopTypingOnce ==
  \A w \in Workspaces, e \in EmailSet :
    hist.stops[w][e] >= 0 =>
      /\ hist.stops[w][e] <= 1
      /\ TypingHas(typingUsers[w], e) =>
           /\ hist.stops[w][e] = 0
           /\ now - TypingEntry(w, e).timestamp <= TYPING_TIMEOUT + TYPING_TIMEOUT
      /\ (~TypingHas(typingUsers[w], e) /\ Quiet) => hist.stops[w][e] = 1

\* C11: a cursor_update from a session that joined the note (w, n) and has not
\* left it produces exactly one cursor_updated carrying that session's id and
\* cursor, delivered to every session that joined the note and has not left,
\* the sender included; a cursor_update from any other session is delivered
\* to nobody.
C11_CursorEcho ==
  LET c == seen.cursor IN
  c.on =>
    IF c.member
    THEN /\ Len(c.out) = 1
         /\ c.out[1].ev = "cursor_updated"
         /\ c.out[1].sid = c.sid
         /\ c.out[1].content = Cursor
         /\ c.members \cup {c.sid} \subseteq c.out[1].rcpt
    ELSE \A i \in 1..Len(c.out) : c.out[i].rcpt = {}

C13_OneSubmittedValue ==
  Quiet =>
    \A w \in Workspaces, n \in NoteIds :
      Cardinality(seen.submitted[w][n]) > 1 =>
        /\ noteContents[n] \in seen.submitted[w][n]
        /\ noteStore[w][n] \in seen.submitted[w][n]
        /\ noteContents[n] = noteStore[w][n]


\* C14: a join_note(w, n) during which no note_content_update for (w, n)
\* arrives is answered with note_content_loaded whose content is the content
\* of the latest update of (w, n); for a note that was never updated it is the
\* stored content, and the empty string when there is none.
C14_JoinLoadsLatest ==
  \A i \in 1..Len(out) :
    (out[i].ev = "note_content_loaded" /\ out[i].sid \notin seen.dirty) =>
      LET w == out[i].room[2]
          n == out[i].room[3]
      IN out[i].content = IF seen.latest[w][n] # Undefined THEN seen.latest[w][n]
                          ELSE IF noteStore[w][n] # Undefined THEN noteStore[w][n]
                          ELSE ""

\* C15: presence and content are scoped by (workspace, note): a
\* note_users_updated sent to room note:{w}:{n} lists only users with a session
\* that joined note n of workspace w, and the content a join_note(w, n) is
\* answered with is a text submitted for, or stored under, note n of workspace
\* w (or empty), whatever happens to the note with the same id elsewhere.
C15_ScopedByWorkspace ==
  \A i \in 1..Len(out) :
    LET w == out[i].room[2]
        n == out[i].room[3]
    IN /\ out[i].ev = "note_users_updated" =>
            \A j \in 1..Len(out[i].users) :
              \E x \in seen.noteIn :
                x[2] = w /\ x[3] = n /\ userOf[x[1]] = out[i].users[j].email
       /\ out[i].ev = "note_content_loaded" =>
            out[i].content \in seen.submitted[w][n] \cup {"", seen.stored[w][n]}

\* C16: for each client address, counting its handshakes since the start of
\* its current window, a handshake is rejected as rate limited exactly when it
\* is the 61st or a later one of the window; a handshake more than 60 s after
\* the window start passes and opens a new window in which it is number 1.
\* The entry of the address in rateLimitMap, while it exists, is that window.
C16_RateWindow ==
  /\ seen.shake.on =>
       (seen.shake.result = "rate limited"
          <=> seen.win[seen.shake.ip].k > MAX_CONNECTIONS_PER_MINUTE)
  /\ \A ip \in Ips :
       rateLimitMap[ip].has =>
         /\ rateLimitMap[ip].count = seen.win[ip].k
         /\ rateLimitMap[ip].lastReset = seen.win[ip].start
\* The 61st handshake of one address was rejected while another address is in
\* the first handshake of a later window.
C16_Witness ==
  \E ip, jp \in Ips :
    /\ ip # jp
    /\ seen.shake.ip = ip /\ seen.shake.result = "rate limited"
    /\ seen.win[ip].k = MAX_CONNECTIONS_PER_MINUTE + 1
    /\ seen.win[jp].k = 1 /\ seen.win[jp].start > RATE_LIMIT_WINDOW

\* C17: a handshake is admitted only if its token is not blacklisted, is
\* signed with the secret under HS256, is neither expired nor older than one
\* hour and carries id and email, whatever the state of the store and of the
\* client (connected, disconnected, breaker open).
C17_AdmitsOnlyValid ==
  LET t == seen.shake.tok IN
  (seen.shake.on /\ seen.shake.result = "admitted") =>
    /\ t # NoToken
    /\ t.key \notin RevokedKeys
    /\ t.alg = "HS256" /\ t.signed
    /\ ~t.expired /\ ~t.old
    /\ t.id /\ t.email

\* C18: every task_created, task_updated, task_deleted or task_moved sent by a
\* session s for workspace w reaches exactly the sessions in room agenda:{w}
\* other than s under the same name with a server timestamp, and its
\* workspace_task_* twin reaches every session that joined workspace w through
\* join_workspace.
C18_TaskFanOut ==
  \A i \in 1..Len(out) :
    out[i].ev \in TaskEvents =>
      LET w == out[i].room[2] IN
      /\ out[i].room = AgendaRoom(w)
      /\ out[i].content = "timestamp"
      /\ out[i].rcpt = Members(namedRooms, AgendaRoom(w)) \ {out[i].sid}
      /\ \E j \in 1..Len(out) :
           /\ out[j].ev = Twin(out[i].ev)
           /\ out[j].content = "timestamp"
           /\ WorkspaceRoom(w) \subseteq out[j].rcpt

\* The step completes a join_agenda, or a leave_agenda or disconnect of a
\* session that the agenda held.
AgendaCompletes ==
  /\ Ready
  /\ NextTask.kind \in {"agendaJoin", "agendaLeave", "agendaGone"}
  /\ NextTask.user # NoUser
  /\ Len(microQ') + Len(ioQ') < Len(microQ) + Len(ioQ)
\* The workspace half: agenda_user_joined / agenda_user_left with the user's
\* data reaches every session that joined the workspace.
AgendaNotifiesWorkspace ==
  LET t == NextTask
      name == IF t.kind = "agendaJoin" THEN "agenda_user_joined" ELSE "agenda_user_left"
  IN \E i \in 1..Len(out') :
       /\ out'[i].ev = name
       /\ out'[i].users = <<t.user>>
       /\ WorkspaceRoom(t.w) \subseteq out'[i].rcpt
\* The agenda half: agenda_users_updated reaches the agenda room and lists the
\* session after a join (unless it left meanwhile), and not after a leave or
\* disconnect (unless it joined again meanwhile).
AgendaListReflects ==
  LET t == NextTask IN
  \E i \in 1..Len(out') :
    /\ out'[i].ev = "agenda_users_updated"
    /\ Members(namedRooms', AgendaRoom(t.w)) \subseteq out'[i].rcpt
    /\ LET listed == \E j \in 1..Len(out'[i].users) : out'[i].users[j].snap = t.sid
           inside == \E k \in 1..Len(seen.joined) :
                       seen.joined[k] = <<t.sid, AgendaRoom(t.w)>>
       IN IF t.kind = "agendaJoin" THEN inside => listed ELSE ~inside => ~listed

\* C19: when a join_agenda, a leave_agenda or the disconnect of an agenda member
\* of workspace w completes, every session that joined workspace w through
\* join_workspace receives agenda_user_joined respectively agenda_user_left, and
\* the sessions in room agenda:{w} receive an agenda_users_updated that reflects
\* the change.
C19_AgendaPresence ==
  [][AgendaCompletes => AgendaNotifiesWorkspace /\ AgendaListReflects]_vars

\* The presence lists sent to a scope.
UsersUpdated == {"collection_users_updated", "agenda_users_updated", "note_users_updated"}
\* The positions in seen.joined of the sessions of user e present in the room.
PresentAs(room, e) ==
  {k \in 1..Len(seen.joined) : seen.joined[k][2] = room /\ userOf[seen.joined[k][1]] = e}

\* C20: every collection_users_updated, agenda_users_updated and
\* note_users_updated payload contains each user email at most once, and when a
\* user has several sessions in the scope the payload carries the snapshot of
\* the most recently added one.  Payloads sent while another handler is
\* suspended are not judged.
C20_UniqueEmails ==
  \A i \in 1..Len(out) :
    (out[i].ev \in UsersUpdated /\ Quiet) =>
      LET us == out[i].users IN
      /\ \A j, k \in 1..Len(us) : us[j].email = us[k].email => j = k
      /\ \A j \in 1..Len(us) :
           LET P == PresentAs(out[i].room, us[j].email) IN
           Cardinality(P) > 1 =>
             us[j].snap = seen.joined[CHOOSE k \in P : \A m \in P : m <= k][1]

\* C21: whenever an event handler fails internally, the failure is counted
\* exactly once through errorOccurred, the session that sent the event
\* receives an error event, and no other session receives an error or is
\* removed from any scope.
C21_ErrorReported ==
  [][errorCount' # errorCount =>
       /\ errorCount' = errorCount + 1
       /\ \E i \in 1..Len(out') :
            out'[i].ev = "error" /\ out'[i].rcpt = {seen'.failed}
       /\ \A i \in 1..Len(out') : out'[i].ev = "error" => out'[i].rcpt = {seen'.failed}
       /\ \A x \in namedRooms : x[1] # seen'.failed => x \in namedRooms'
       /\ \A w \in Workspaces :
            \A k \in 1..Len(agendaUsers[w]) :
              agendaUsers[w][k].sid # seen'.failed => HasKey(agendaUsers'[w], agendaUsers[w][k].sid)
     ]_vars

\* C22: while the shared store is unavailable (client disconnected or breaker
\* open), join_workspace, leave_workspace and get_workspace_users complete
\* without an error event, join_workspace and get_workspace_users emit
\* users_connected, and every users_connected payload equals the
\* email-deduplicated in-process presence of the workspace.
C22_LocalPresenceServed ==
  [][(/\ SetBlocked
      /\ Ready
      /\ NextTask.kind \in {"join", "leave", "get"}
      /\ Len(microQ') + Len(ioQ') < Len(microQ) + Len(ioQ))
     => /\ \A i \in 1..Len(out') : out'[i].ev # "error"
        /\ NextTask.kind \in {"join", "get"} =>
             \E i \in 1..Len(out') : out'[i].ev = "users_connected"
        /\ \A i \in 1..Len(out') :
             out'[i].ev = "users_connected" =>
               out'[i].users = removeDuplicateUsers(Values(workspaceSockets'[NextTask.w]))
    ]_vars

\* The public operations of the shared-state client and the values each can
\* return.
PublicOps == OtherOps \cup {"get", "set", "healthCheck"}
Results(op) ==
  CASE op = "get" -> {"value", "null"}
    [] op = "set" -> {"true", "false"}
    [] op = "healthCheck" -> {"healthy", "degraded", "unhealthy"}
    [] OTHER -> {Done(op), Refused(op)}

C24_ResetOnNextOperation ==
  [][(hist'.call.op \in PublicOps /\ circuitOpen /\ circuitResetTime < 0) =>
       /\ ~circuitOpen'
       /\ failureCount' = IF hist'.call.sent /\ store # "up" THEN 1 ELSE 0
    ]_vars

\* No handler is suspended and no grace timer is pending.
Settled == Quiet /\ timers = {} /\ pendingDisconnections = <<>>

\* C25: for workspace, note and agenda scopes, once the last member of a scope
\* has left, disconnected or expired after grace, the scope's presence record
\* exists neither in the in-process maps nor as a key in the shared store.
C25_EmptyScopeReclaimed ==
  Settled =>
    /\ \A w \in Workspaces :
         (workspaceSockets[w] = <<>> /\ redisData[WorkspaceKey(w)] = <<>>) =>
           /\ \A i \in 1..Len(wsKeys) : wsKeys[i] # w
           /\ WorkspaceKey(w) \notin redisKeys
    /\ \A w \in Workspaces :
         (agendaUsers[w] = <<>> /\ redisData[AgendaKey(w)] = <<>>) =>
           AgendaKey(w) \notin redisKeys
    /\ \A n \in NoteIds : noteUsers[n].list = <<>> => ~noteUsers[n].has

\* C26: an event whose payload lacks a required field leaves the local
\* history, the typing state, the note content and the shared store as they
\* were and reaches no other socket; for new_message and note_content_update
\* the sender, and only the sender, receives one error event.
C26_InvalidInputRejected ==
  [][seen'.malformed # seen.malformed =>
       LET e == seen'.malformed IN
       /\ UNCHANGED <<workspaceMessages, typingUsers, noteContents, noteStore, noteCache,
                      redisKeys, redisData, localCache, microQ, ioQ>>
       /\ IF e.ev \in {"user_typing", "user_stop_typing"}
          THEN out' = <<>>
          ELSE /\ Len(out') = 1
               /\ out'[1].ev = "error"
               /\ IF e.ev = "new_message" THEN out'[1].to = e.sid
                                           ELSE out'[1].rcpt = {e.sid}
    ]_vars

\* The step opens the breaker as _handleReconnect does when the attempts are
\* used up.
OpenedByExhaustion == Len(LongTimers(reconnectTimers')) > Len(LongTimers(reconnectTimers))

\* C27: the breaker opens exactly when failureThreshold failures have been
\* counted with no successful operation in between, and is then held for
\* resetTimeout from that failure.
C27_OpensAtThreshold ==
  [][/\ (~circuitOpen /\ circuitOpen' /\ ~OpenedByExhaustion) =>
          /\ hist'.streak = failureThreshold
          /\ circuitResetTime' = resetTimeout
     /\ (hist.streak < failureThreshold /\ hist'.streak = failureThreshold) => circuitOpen'
    ]_vars

\* A timer set when the attempts were used up has not fired yet.
LongWait == \E i \in 1..Len(reconnectTimers) :
              reconnectTimers[i].kind = "long" /\ reconnectTimers[i].left > 0

\* C28: reconnectAttempts never exceeds maxReconnectAttempts; a reconnect
\* requested at that count opens the breaker for one minute and sets a timer of
\* five minutes; no connection is attempted while that timer runs; the run of
\* initialize() it starts is not blocked by the breaker and counts from 0.
C28_ExhaustedBackoff ==
  [][/\ reconnectAttempts' <= maxReconnectAttempts
     /\ OpenedByExhaustion =>
          /\ reconnectAttempts' = maxReconnectAttempts
          /\ circuitOpen' /\ circuitResetTime' = exhaustedResetTimeout
          /\ reconnectTimers'[Len(reconnectTimers')] =
               [kind |-> "long", left |-> exhaustedRetryDelay]
     /\ (hist'.call.op = "initialize" /\ hist'.call.sent) => ~LongWait
     /\ (hist'.call.op = "initialize" /\ hist'.call.result = "long") =>
          /\ hist'.call.sent
          /\ reconnectAttempts' <= 2
    ]_vars
\* The five-minute timer has just run initialize(), and the connect failed again.
C28_Witness ==
  /\ hist.call.op = "initialize" /\ hist.call.result = "long"
  /\ hist.call.sent /\ hist.call.failed
  /\ reconnectAttempts = 1

\* C29: at most one call of initialize() is pending at any time.
C29_OneReconnectPending == Len(reconnectTimers) <= 1

\* The sessions that a record of a workspace lists with email e.
SessionsOf(rec, e) == {rec[i].sid : i \in {j \in 1..Len(rec) : rec[j].user.email = e}}

\* C30: when join_workspace of session s with email e has updated the
\* in-process map and written the shared record, s is the only session with
\* email e in both, however many older sessions of e they held.
C30_JoinEvictsAllOlder ==
  [][\A q \in {microQ', ioQ'} : \A i \in 1..Len(q) :
       LET t == q[i] IN
       (/\ t.kind = "join" /\ t.pc = "afterSet" /\ t.path = "io"
        /\ \A p \in {microQ, ioQ} : \A j \in 1..Len(p) : p[j] # t) =>
         /\ SessionsOf(workspaceSockets'[t.w], t.user.email) = {t.sid}
         /\ SessionsOf(redisData'[WorkspaceKey(t.w)], t.user.email) = {t.sid}
    ]_vars

\* C31: one pass of the sweeper over the in-process map, and over the shared
\* record it reads, leaves for every email its most recently inserted socket
\* and the sockets of emails without a duplicate as they were.
C31_SweepKeepsLatest ==
  [][/\ \A w \in Workspaces : workspaceSockets'[w] # workspaceSockets[w] \/ events' # events =>
            workspaceSockets'[w] = KeepLast(workspaceSockets[w])
     /\ \A w \in Workspaces :
          LET rec == redisData[WorkspaceKey(w)] IN
          /\ redisData'[WorkspaceKey(w)] \in {rec, KeepLast(rec)}
          /\ (Ready /\ NextTask.kind = "sweep" /\ NextTask.pc = "afterGet" /\ NextTask.w = w) =>
               redisData'[WorkspaceKey(w)] = KeepLast(rec)
    ]_vars
\* The sweeper has written back a record in which one email had three sockets.
C31_Witness ==
  /\ Ready /\ NextTask.kind = "sweep" /\ NextTask.pc = "afterSet"
  /\ Len(redisData[WorkspaceKey(1)]) = 1
  /\ redisData[WorkspaceKey(1)][1].sid = 1
  /\ Len(workspaceSockets[1]) = 2

\* Joins, leaves and the sweeper on a shared record that sessions of other
\* instances have written to: every session of this process is in the record
\* exactly when it is in the in-process map, under the same email.
InitJoined ==
  /\ InitExt
  /\ \E local \in LocalMaps, rec \in Records(SweepSids) :
       /\ \A s \in Sessions : HasKey(local, s) <=> HasKey(rec, s)
       /\ \A s \in KeySet(local) : Lookup(local, s) = Lookup(rec, s)
       /\ \A s \in Sessions : HasKey(local, s) => \A s0 \in Sessions : s0 < s => HasKey(local, s0)
       /\ InitWith(local, {WorkspaceKey(1)}, [k \in Keys |-> IF k = WorkspaceKey(1) THEN rec
                                                          ELSE <<>>])

NextJoined ==
  \/ \E s \in Sessions : \E e \in EmailsFor(s) : Connect(s, e)
  \/ \E s \in Sessions, w \in FleetWorkspaces : join_workspace(s, w) \/ leave_workspace(s, w)
  \/ cleanupDuplicateUsers
  \/ JoinAfterGet \/ JoinAfterSet \/ LeaveAfterGet \/ LeaveAfterSet
  \/ SweepAfterKeys \/ SweepAfterGet \/ SweepAfterSet

SpecJoined == InitJoined /\ [][NextJoined]_vars

\* The step is the write-back of the sweeper for workspace w.
SweeperWrites(w) ==
  /\ Ready /\ NextTask.kind = "sweep" /\ NextTask.pc = "afterGet" /\ NextTask.w = w
  /\ events' = events
  /\ redisData'[WorkspaceKey(w)] # redisData[WorkspaceKey(w)]

\* C32: the write-back of the sweeper undoes no join and no leave: a session
\* that a join has put in both the in-process map and the shared record, and
\* that is the latest of its email there, stays in the record, and no session
\* of this process that a leave has taken out of both comes back.
C32_SweeperKeepsJoinsAndLeaves ==
  [][\A w \in Workspaces : SweeperWrites(w) =>
       LET rec == redisData[WorkspaceKey(w)] IN
       /\ \A s \in LocalSids(w) \cap KeySet(KeepLast(rec)) : s \in SharedSids(w)'
       /\ \A s \in Sessions \ (LocalSids(w) \cup KeySet(rec)) : s \notin SharedSids(w)'
    ]_vars

\* The collection handler: joins, leaves and disconnects, and a loss of the
\* connection to the store.
NextCollection ==
  \/ \E s \in Sessions : (\E e \in EmailsFor(s) : Connect(s, e)) \/ CollectionDisconnect(s)
  \/ \E s \in Sessions, w \in FleetWorkspaces : join_collection(s, w) \/ leave_collection(s, w)
  \/ CollJoinAfterGet \/ CollJoinAfterSet
  \/ CollLeaveAfterGet \/ CollLeaveAfterSet \/ CollLeaveAfterDelete
  \/ CollDiscAfterKeys \/ CollDiscAfterGet \/ CollDiscAfterSet \/ CollDiscAfterDelete
  \/ StoreChange("down")

SpecCollection == Init /\ [][NextCollection]_vars

CollectionSids(w) == KeySet(collectionUsers[w].map)
\* A join of session s is being processed.
CollJoining(s, w) ==
  \E i \in 1..Len(microQ) + Len(ioQ) :
    LET t == (microQ \o ioQ)[i] IN t.kind = "cjoin" /\ t.sid = s /\ t.w = w

\* C33: a join_collection of a session whose email another session holds in
\* the collection registers the new session (in the in-process Map at once,
\* in the shared record and the room when the join has been processed) and
\* removes the older session from the in-process Map.
C33_CollectionJoinReplaces ==
  [][\A s \in Sessions, w \in FleetWorkspaces :
       (/\ join_collection(s, w)
        /\ \E o \in CollectionSids(w) \ {s} : Lookup(collectionUsers[w].map, o).email = userOf[s])
       => /\ s \in CollectionSids(w)'
          /\ CollJoining(s, w)'
          /\ \A o \in CollectionSids(w)' \ {s} :
               Lookup(collectionUsers'[w].map, o).email # userOf[s]
    ]_vars

\* C34: the in-process entry of a collection is dropped, and its shared key
\* deleted, only when the in-process Map of the collection is empty, and once
\* every handler has finished a collection without members has neither.
C34_CollectionKeptWithMembers ==
  [][\A w \in FleetWorkspaces :
       /\ (collectionUsers[w].has /\ ~collectionUsers'[w].has) => collectionUsers[w].map = <<>>
       /\ (CollectionKey(w) \in redisKeys /\ CollectionKey(w) \notin redisKeys')
             => collectionUsers[w].map = <<>>
       /\ (NumTasks' = 0 /\ collectionUsers'[w].map = <<>>)
             => ~collectionUsers'[w].has /\ (store' = "up" => CollectionKey(w) \notin redisKeys')
    ]_vars

\* The sessions other than s that are listed for note n and are in a room of it.
RemainingMembers(s, n) ==
  {r \in Sessions \ {s} :
     /\ SocketIndex(noteUsers[n].list, r) # 0
     /\ \E w \in Workspaces : <<r, NoteRoom(w, n)>> \in namedRooms}

\* C35: a disconnect takes the session out of every member list at once, and
\* when the leave it starts for a note has been processed, every remaining
\* member in the room of the note receives note_users_updated without the
\* session and cursor_updated with its withdrawn cursor.
C35_DisconnectAnnounced ==
  [][/\ \A s \in Sessions : handleDisconnect(s) =>
            \A n \in NoteIds : SocketIndex(noteUsers'[n].list, s) = 0
     /\ (NoteLeaveAfterSet /\ NextTask.w = UnknownWorkspace) =>
          \A r \in RemainingMembers(NextTask.sid, NextTask.n) :
            /\ \E i \in 1..Len(out') :
                 /\ out'[i].ev = "note_users_updated" /\ r \in out'[i].rcpt
                 /\ \A j \in 1..Len(out'[i].users) : out'[i].users[j] # NextTask.user
            /\ \E i \in 1..Len(out') :
                 /\ out'[i].ev = "cursor_updated" /\ r \in out'[i].rcpt
                 /\ out'[i].sid = NextTask.sid /\ out'[i].content = Undefined
    ]_vars

\* JoinList written by its effect: the entry of the user gets the socket id
\* where it is, or one entry is added at the end.
JoinedList(list, s, u) ==
  IF \E i \in 1..Len(list) : list[i].userData.email = u.email
  THEN [i \in 1..Len(list) |->
          IF list[i].userData.email = u.email THEN [id |-> s, userData |-> list[i].userData]
          ELSE list[i]]
  ELSE list \o <<[id |-> s, userData |-> u]>>

\* C37: a member list holds every user at most once; join_note of a listed
\* user changes the socket id of the entry of that user and nothing else, and
\* join_note of another user adds one entry at the end.
C37_OneEntryPerUser ==
  [][/\ \A n \in NoteIds : \A i, j \in 1..Len(noteUsers'[n].list) :
            noteUsers'[n].list[i].userData.email = noteUsers'[n].list[j].userData.email => i = j
     /\ \A s \in Sessions, w \in Workspaces, n \in NoteIds :
          join_note(s, w, n) =>
            noteUsers'[n].list = JoinedList(noteUsers[n].list, s, UserData(s))
    ]_vars

\* The entry of bob, made by session 3, has become the entry of session 2 and
\* is still in front of the entry of alice.
C37_Witness ==
  /\ Len(noteUsers[1].list) = 2
  /\ noteUsers[1].list[1] = [id |-> 2, userData |-> [email |-> "bob", snap |-> 3]]
  /\ noteUsers[1].list[2].id = 1

\* The member list of note 1 at the start: empty, or the entry of a session
\* of another socket that takes no further part.
InitMembers ==
  /\ \E lists \in [NoteIds -> {<<>>} \cup {<<[id |-> p, userData |-> [email |-> e, snap |-> p]]>> :
                                           p \in PeerSessions, e \in EmailSet}] :
       InitListed(lists)
  /\ noteStore = NoStoredNotes /\ InitSeen /\ InitCore

\* Members that join and leave.
NextListed ==
  \/ \E s \in Sessions : \E e \in EmailsFor(s) : Connect(s, e)
  \/ \E s \in Sessions, w \in Workspaces, n \in NoteIds : join_note(s, w, n) \/ leave_note(s, w, n)
  \/ NoteJoinAfterSet \/ NoteJoinAfterGet \/ NoteLeaveAfterSet

SpecListed == InitMembers /\ [][NextListed]_vars

\* The note handler: members that join and leave, and content updates.
NextMembers ==
  \/ \E s \in Sessions : \E e \in EmailsFor(s) : Connect(s, e)
  \/ \E s \in Sessions, w \in Workspaces, n \in NoteIds :
       join_note(s, w, n) \/ leave_note(s, w, n)
         \/ \E c \in Contents : note_content_update(s, w, n, c)
  \/ NoteJoinAfterSet \/ NoteJoinAfterGet \/ NoteLeaveAfterSet \/ NoteContentAfterSet

SpecMembers == Init /\ [][NextMembers]_vars

\* C36: a note_content_update for a note whose member list is empty (nobody
\* joined it, or every member left) changes neither the in-process nor the
\* stored content and starts no broadcast.
C36_UpdateNeedsMember ==
  [][\A s \in Sessions, w \in Workspaces, n \in NoteIds, c \in Contents :
       (note_content_update(s, w, n, c) /\ noteUsers[n].list = <<>>)
       => /\ noteContents' = noteContents
          /\ noteStore' = noteStore
          /\ microQ' = microQ /\ ioQ' = ioQ
          /\ out' = <<>>
    ]_vars

\* C38: in the message history of a workspace the ids grow strictly in the
\* order in which the messages were appended, so no two messages share an id.
C38_MessageIdsIncrease ==
  \A w \in Workspaces : \A i, j \in 1..Len(workspaceMessages[w]) :
    i < j => workspaceMessages[w][i].id < workspaceMessages[w][j].id

\* The workspace handler of a single instance whose connection to the store
\* may be lost at any time; no cache entry expires.
NextCached ==
  \/ \E s \in Sessions : \E e \in EmailsFor(s) : Connect(s, e)
  \/ StoreChange("down")
  \/ \E s \in Sessions, w \in FleetWorkspaces :
       \/ join_workspace(s, w)
       \/ leave_workspace(s, w)
       \/ get_workspace_users(s, w)
  \/ JoinAfterGet \/ JoinAfterSet \/ LeaveAfterGet \/ LeaveAfterSet \/ GetUsersAfterGet

SpecCached == Init /\ [][NextCached]_vars

\* C39: what a cache hit returns is the value of the last successful write or
\* read of the key.  With this instance as the only writer and every call
\* finished, that value is the one the store holds: a live cache entry of a
\* presence key equals the stored record.
C39_CacheHoldsStoredValue ==
  Quiet => \A w \in FleetWorkspaces :
             (cacheEnabled /\ localCache[WorkspaceKey(w)] # 0)
             => /\ WorkspaceKey(w) \in redisKeys
                /\ heap[localCache[WorkspaceKey(w)]] = redisData[WorkspaceKey(w)]

\* The operations of the client that use the cache, and the cache switch.
NextCaching ==
  \/ \E op \in CachingOps, k \in ClientKeys, v \in SetValues : CachingCall(op, k, v)
  \/ CachingReturn
  \/ \E enabled \in BOOLEAN : configureCaching(enabled)

SpecCaching == Init /\ [][NextCaching]_vars

CacheEmpty ==
  /\ \A k \in Keys : localCache[k] = 0
  /\ \A w \in NoteWorkspaces, n \in NoteIds : noteCache[w][n] = Undefined
  /\ authCache = {}

\* C40: while caching is disabled the cache is empty, whatever operations
\* that started before the switch complete after it, and the step that
\* enables caching again leaves it empty.
C40_DisabledCacheEmpty ==
  [][/\ ~cacheEnabled' => CacheEmpty'
     /\ (~cacheEnabled /\ cacheEnabled') => CacheEmpty'
    ]_vars

\* A get and a set that were called with caching enabled have completed with
\* caching disabled.
C40_Witness == ~cacheEnabled /\ {"get", "set"} \subseteq seen.late
====
